---- MODULE Spec2Model ----
(***************************************************************************)
(* A model of two subsystems of libterminal:                               *)
(*                                                                         *)
(*   - ViInputHandler (src/src/terminal/ViInputHandler.cpp): the modal     *)
(*     key/character router.  Its fields are the variables viMode, count,  *)
(*     pendingOperator, pendingTextObjectScope, searchEditMode and         *)
(*     searchTerm; every call it makes on its Executor is recorded in      *)
(*     calls.                                                              *)
(*   - RenderBufferBuilder (src/src/terminal/RenderBufferBuilder.cpp): the *)
(*     per-frame compiler of grid cells into runs of RenderCells.          *)
(*                                                                         *)
(* Handlers are translated as operators over a record of the object's      *)
(* fields (the C++ `this`), each returning the record after the call; an   *)
(* action applies one public entry point to the variables.                 *)
(***************************************************************************)
EXTENDS Integers, Sequences, FiniteSets, TLC

(***************************************************************************)
(* ViInputHandler: state                                                   *)
(***************************************************************************)
VARIABLES
    viMode,                 \* ViMode
    count,                  \* unsigned, as [hi, lo]; 0 stands for "no count"
    pendingOperator,        \* optional<ViOperator>; None when empty
    pendingTextObjectScope, \* optional<TextObjectScope>; None when empty
    searchEditMode,         \* SearchEditMode
    searchTerm,             \* std::u32string, as a sequence of code points
    calls,                  \* the Executor calls made by the last operation, in order
    lastEvent,              \* history: the last operation and its arguments
    ret,                    \* history: what the last operation returned
    typed,                  \* history: the run of count digits typed last
    nDigits,                \* history: digits accumulated into count since it was 0
    searchOrigin,           \* history: the mode in which the open search editor was
                            \* opened; None while it is closed
    reportedTerm,           \* history: the term of the last updateSearchTerm call since
                            \* the last searchStart, alone in a sequence; empty when no
                            \* term was reported, and once the editor is closed and an
                            \* event has followed
    notifiedMode            \* history, kept where kept is set: the argument of the last
                            \* modeChanged call, alone in a sequence; empty before the
                            \* first call

viVars == <<viMode, count, pendingOperator, pendingTextObjectScope, searchEditMode,
            searchTerm, calls, lastEvent, ret, typed, nDigits, searchOrigin,
            reportedTerm, notifiedMode>>

None == "None"

ViModes == {"Normal", "Insert", "Visual", "VisualLine", "VisualBlock"}
VisualModes == {"Visual", "VisualLine", "VisualBlock"}

\* Modifier is a bit mask over the keys Shift, Alt, Control and Meta.
ModifierKey == [None |-> 0, Shift |-> 1, Alt |-> 2, Control |-> 4, Meta |-> 8]
NoModifier == ModifierKey.None
Shift == ModifierKey.Shift
Control == ModifierKey.Control
Alt == ModifierKey.Alt

\* modifier.without(key), for a single key
Without(modifier, key) ==
    IF (modifier \div key) % 2 = 1 THEN modifier - key ELSE modifier

\* The character literals of ViInputHandler.cpp, as code points.
CH == [ esc |-> 27, cr |-> 13, bs |-> 8, del |-> 127,
        dquote |-> 34, hash |-> 35, dollar |-> 36, percent |-> 37, squote |-> 39,
        lparen |-> 40, star |-> 42, slash |-> 47, d0 |-> 48, d3 |-> 51, d9 |-> 57,
        langle |-> 60, lbracket |-> 91, caret |-> 94, backquote |-> 96,
        lbrace |-> 123, bar |-> 124, rbrace |-> 125,
        A |-> 65, D |-> 68, E |-> 69, G |-> 71, H |-> 72, J |-> 74, K |-> 75, L |-> 76,
        N |-> 78, U |-> 85, V |-> 86, Y |-> 89,
        a |-> 97, b |-> 98, e |-> 101, g |-> 103, h |-> 104, i |-> 105, j |-> 106,
        k |-> 107, l |-> 108, n |-> 110, p |-> 112, v |-> 118, w |-> 119, x |-> 120,
        y |-> 121 ]

\* count is an unsigned, 32 bits wide: count * 10 + digit wraps modulo 2^32.  An
\* unsigned is held as its two 16-bit halves, [hi, lo] standing for hi * 2^16 + lo
\* (TLC's integers end at 2^31 - 1).
Half == 65536

U32(n) == [hi |-> (n \div Half) % Half, lo |-> n % Half]

\* (u * 10 + d) modulo 2^32, for d < 2^16.
MulAdd10(u, d) ==
    LET low == u.lo * 10 + d
    IN  [hi |-> (u.hi * 10 + low \div Half) % Half, lo |-> low % Half]

\* The quotient and the remainder of u by ten.
DivMod10(u) ==
    LET t == (u.hi % 10) * Half + u.lo
    IN  [quot |-> [hi |-> u.hi \div 10, lo |-> t \div 10], rem |-> t % 10]

\* The decimal digits of u, most significant first; none for 0.
RECURSIVE Decimal(_)
Decimal(u) ==
    IF u = U32(0) THEN <<>>
    ELSE Append(Decimal(DivMod10(u).quot), DivMod10(u).rem)

\* InputMatch { modifier, ch } converted to its code, (ch << 5) | (modifier & 0b11111),
\* which is what the switch statements compare (code points are below 2^27).
InputMatch(modifier, ch) == (ch * 32) + (modifier % 32)

Call(fn, args) == [fn |-> fn, args |-> args]

\* The handler's fields (and the calls made so far in the current operation).
Handler == [viMode |-> viMode, count |-> count, pendingOperator |-> pendingOperator,
            pendingTextObjectScope |-> pendingTextObjectScope,
            searchEditMode |-> searchEditMode, searchTerm |-> searchTerm,
            calls |-> <<>>]

\* h after one more call on the Executor.
Invoke(h, fn, args) == [h EXCEPT !.calls = Append(@, Call(fn, args))]

\* The three-field reset that ends yank, select, execute and
\* executePendingOrMoveCursor.
ResetPending(h) ==
    [h EXCEPT !.count = U32(0), !.pendingOperator = None,
               !.pendingTextObjectScope = None]

\* The count passed on as 1 whatever was typed.
CountOr1_one(h) == U32(1)

\* count ? count : 1
CountOr1(h) == IF h.count # U32(0) THEN h.count ELSE U32(1)

Done(h) == [ok |-> TRUE, h |-> h]
NotDone(h) == [ok |-> FALSE, h |-> h]

charToTextObject(ch) ==
    CASE ch = CH.dquote    -> "DoubleQuotes"
      [] ch = CH.lparen    -> "RoundBrackets"
      [] ch = CH.langle    -> "AngleBrackets"
      [] ch = CH.lbracket  -> "SquareBrackets"
      [] ch = CH.squote    -> "SingleQuotes"
      [] ch = CH.backquote -> "BackQuotes"
      [] ch = CH.p         -> "Paragraph"
      [] ch = CH.w         -> "Word"
      [] ch = CH.lbrace    -> "CurlyBrackets"
      [] OTHER             -> None

\* setMode notifying the executor whatever the mode was.
setMode_renotify(h, theMode) ==
    Invoke([h EXCEPT !.viMode = theMode, !.count = U32(0), !.pendingOperator = None,
                     !.pendingTextObjectScope = None],
           "modeChanged", <<theMode>>)

\* setMode without the reset of count, operator and scope.
setMode_unreset(h, theMode) ==
    IF h.viMode = theMode
    THEN h
    ELSE Invoke([h EXCEPT !.viMode = theMode], "modeChanged", <<theMode>>)

setMode(h, theMode) ==
    IF h.viMode = theMode
    THEN h
    ELSE Invoke([h EXCEPT !.viMode = theMode, !.count = U32(0), !.pendingOperator = None,
                          !.pendingTextObjectScope = None],
                "modeChanged", <<theMode>>)

\* toggleMode that always enters the mode.
toggleMode_enter(h, newMode) == setMode(h, newMode)

toggleMode(h, newMode) == setMode(h, IF newMode # h.viMode THEN newMode ELSE "Normal")

IsDigit(ch) == ch >= CH.d0 /\ ch <= CH.d9

\* parseCount with the digit added to count without the shift by ten.
parseCount_unshifted(h, ch, modifier) ==
    IF modifier # NoModifier THEN NotDone(h)
    ELSE IF ch = CH.d0 /\ h.count = U32(0) THEN NotDone(h)
    ELSE IF IsDigit(ch)
         THEN Done([h EXCEPT !.count = U32(h.count.lo + (ch - CH.d0))])
         ELSE NotDone(h)

\* parseCount without its test of the modifier.
parseCount_modified(h, ch, modifier) ==
    IF ch = CH.d0 /\ h.count = U32(0) THEN NotDone(h)
    ELSE IF IsDigit(ch)
         THEN Done([h EXCEPT !.count = MulAdd10(h.count, ch - CH.d0)])
         ELSE NotDone(h)

parseCount(h, ch, modifier) ==
    IF modifier # NoModifier THEN NotDone(h)
    ELSE IF ch = CH.d0 /\ h.count = U32(0) THEN NotDone(h)
    ELSE IF IsDigit(ch)
         THEN Done([h EXCEPT !.count = MulAdd10(h.count, ch - CH.d0)])
         ELSE NotDone(h)

yank(h, scope, textObject) == ResetPending(Invoke(h, "yank", <<scope, textObject>>))

\* select without the reset of count and the pending fields.
select_unreset(h, scope, textObject) == Invoke(h, "select", <<scope, textObject>>)

select(h, scope, textObject) == ResetPending(Invoke(h, "select", <<scope, textObject>>))

execute(h, op, motion) == ResetPending(Invoke(h, "execute", <<op, motion, CountOr1(h)>>))

startSearch(h) ==
    Invoke([h EXCEPT !.searchEditMode = "Enabled", !.searchTerm = <<>>], "searchStart", <<>>)

\* J and K without their scroll of the viewport.
scrollViewport_still(h, delta) == h

scrollViewport(h, delta) == Invoke(h, "scrollViewport", <<delta>>)

executePendingOrMoveCursor(h, motion) ==
    LET op == IF h.pendingOperator = None THEN "MoveCursor" ELSE h.pendingOperator
        called ==
            CASE op = "MoveCursor" -> Invoke(h, "moveCursor", <<motion, CountOr1(h)>>)
              [] op = "Yank"       -> h
              [] op = "Paste"      -> Invoke(h, "paste", <<CountOr1(h)>>)
              [] op = "ReverseSearchCurrentWord" -> Invoke(h, "reverseSearchCurrentWord", <<>>)
    IN ResetPending(called)

\* The motion table of parseTextObject (the switch at its lines 390-416); the match
\* is on the modifier without Shift.  J and K also scroll the viewport.
MotionOf(m, ch) ==
    CASE m = Control /\ ch = CH.D         -> "PageDown"
      [] m = Control /\ ch = CH.U         -> "PageUp"
      [] m = NoModifier /\ ch = CH.dollar  -> "LineEnd"
      [] m = NoModifier /\ ch = CH.percent -> "ParenthesisMatching"
      [] m = NoModifier /\ ch = CH.d0      -> "LineBegin"
      [] m = NoModifier /\ ch = CH.caret   -> "LineTextBegin"
      [] m = NoModifier /\ ch = CH.G       -> "FileEnd"
      [] m = NoModifier /\ ch = CH.N       -> "SearchResultBackward"
      [] m = NoModifier /\ ch = CH.b       -> "WordBackward"
      [] m = NoModifier /\ ch = CH.e       -> "WordEndForward"
      [] m = NoModifier /\ ch = CH.g       -> "FileBegin"
      [] m = NoModifier /\ ch = CH.h       -> "CharLeft"
      [] m = NoModifier /\ ch = CH.j       -> "LineDown"
      [] m = NoModifier /\ ch = CH.k       -> "LineUp"
      [] m = NoModifier /\ ch = CH.J       -> "LineDown"
      [] m = NoModifier /\ ch = CH.K       -> "LineUp"
      [] m = NoModifier /\ ch = CH.H       -> "PageTop"
      [] m = NoModifier /\ ch = CH.L       -> "PageBottom"
      [] m = NoModifier /\ ch = CH.l       -> "CharRight"
      [] m = NoModifier /\ ch = CH.n       -> "SearchResultForward"
      [] m = NoModifier /\ ch = CH.w       -> "WordForward"
      [] m = NoModifier /\ ch = CH.lbrace  -> "ParagraphBackward"
      [] m = NoModifier /\ ch = CH.bar     -> "ScreenColumn"
      [] m = NoModifier /\ ch = CH.rbrace  -> "ParagraphForward"
      [] OTHER -> None

parseTextObject(h, ch, modifier) ==
    LET m == Without(modifier, Shift)
        scoped ==
            IF h.viMode # "Normal" \/ h.pendingOperator # None
            THEN CASE InputMatch(m, ch) = InputMatch(NoModifier, CH.i) -> "Inner"
                   [] InputMatch(m, ch) = InputMatch(NoModifier, CH.a) -> "A"
                   [] OTHER -> None
            ELSE None
        textObject == charToTextObject(ch)
        motion == MotionOf(m, ch)
        scrolled ==
            IF InputMatch(m, ch) = InputMatch(NoModifier, CH.J) THEN scrollViewport(h, -1)
            ELSE IF InputMatch(m, ch) = InputMatch(NoModifier, CH.K) THEN scrollViewport(h, 1)
            ELSE h
    IN  IF scoped # None
        THEN Done([h EXCEPT !.pendingTextObjectScope = scoped])
        ELSE IF h.pendingTextObjectScope # None /\ h.pendingOperator # None
                /\ textObject # None
        THEN IF h.pendingOperator = "Yank"
             THEN Done(yank(h, h.pendingTextObjectScope, textObject))
             ELSE Done(h)
        ELSE IF motion # None
        THEN Done(executePendingOrMoveCursor(scrolled, motion))
        ELSE IF modifier # NoModifier
        THEN NotDone(h)
        ELSE IF textObject # None
        THEN Done(CASE h.viMode = "Normal" ->
                         IF h.pendingTextObjectScope # None /\ h.pendingOperator = "Yank"
                         THEN yank(h, h.pendingTextObjectScope, textObject)
                         ELSE h
                    [] h.viMode \in VisualModes ->
                         IF h.pendingTextObjectScope # None
                         THEN select(h, h.pendingTextObjectScope, textObject)
                         ELSE h
                    [] OTHER -> h)
        ELSE NotDone(h)

parseModeSwitch(h, ch, modifier) ==
    LET im == InputMatch(modifier, ch) IN
    CASE im = InputMatch(Control, CH.V) -> Done(toggleMode(h, "VisualBlock"))
      [] im = InputMatch(Shift, CH.V)   -> Done(toggleMode(h, "VisualLine"))
      [] im = InputMatch(NoModifier, CH.a) \/ im = InputMatch(NoModifier, CH.i) ->
            IF h.pendingOperator = None /\ h.viMode = "Normal"
            THEN Done(toggleMode(h, "Insert"))
            ELSE NotDone(h)
      [] im = InputMatch(NoModifier, CH.v) -> Done(toggleMode(h, "Visual"))
      [] OTHER -> NotDone(h)

\* The 'y' case with the second 'y' yanking the selection, as 'y' does in visual modes.
normalModeYank_selection(h) ==
    IF h.pendingOperator = None THEN [h EXCEPT !.pendingOperator = "Yank"]
    ELSE IF h.pendingOperator = "Yank" THEN execute(h, "Yank", "Selection")
    ELSE [h EXCEPT !.pendingOperator = None]

\* The 'y' case of handleNormalMode.
normalModeYank(h) ==
    IF h.pendingOperator = None THEN [h EXCEPT !.pendingOperator = "Yank"]
    ELSE IF h.pendingOperator = "Yank" THEN execute(h, "Yank", "FullLine")
    ELSE [h EXCEPT !.pendingOperator = None]

\* The switch of handleNormalMode (lines 488-505): whether a case matched (ok), and
\* the handler after it.
normalModeKey(h, ch, modifier) ==
    LET im == InputMatch(Without(modifier, Shift), ch) IN
    CASE im = InputMatch(NoModifier, CH.slash) -> Done(startSearch(h))
      [] im = InputMatch(NoModifier, CH.v)     -> Done(toggleMode(h, "Visual"))
      [] im = InputMatch(NoModifier, CH.hash)  -> Done(Invoke(h, "reverseSearchCurrentWord", <<>>))
      [] im = InputMatch(NoModifier, CH.star)  -> Done(Invoke(h, "searchCurrentWord", <<>>))
      [] im = InputMatch(NoModifier, CH.p)     -> Done(Invoke(h, "paste", <<CountOr1(h)>>))
      [] im = InputMatch(NoModifier, CH.n)     -> Done(Invoke(h, "jumpToNextMatch", <<CountOr1(h)>>))
      [] im = InputMatch(NoModifier, CH.N)     -> Done(Invoke(h, "jumpToPreviousMatch", <<CountOr1(h)>>))
      [] im = InputMatch(NoModifier, CH.y)     -> Done(normalModeYank(h))
      [] OTHER -> NotDone(h)

handleNormalMode(h, ch, modifier) ==
    LET switched == parseModeSwitch(h, ch, modifier)
        counted == parseCount(h, ch, modifier)
        keyed == normalModeKey(h, ch, modifier)
    IN  IF switched.ok THEN switched.h
        ELSE IF counted.ok THEN counted.h
        ELSE IF keyed.ok THEN keyed.h
        ELSE parseTextObject(h, ch, modifier).h

\* The switch of handleVisualMode (lines 306-322).  Its last label,
\* 'N' | Modifier::Shift, is compared with a match whose modifier has had Shift
\* removed, so no input equals it.
visualModeKey(h, ch, modifier) ==
    LET im == InputMatch(Without(modifier, Shift), ch) IN
    CASE im = InputMatch(NoModifier, CH.slash) -> Done(startSearch(h))
      [] im = InputMatch(NoModifier, CH.esc)   -> Done(setMode(h, "Normal"))
      [] im = InputMatch(Control, CH.V)        -> Done(toggleMode(h, "VisualBlock"))
      [] im = InputMatch(NoModifier, CH.V)     -> Done(toggleMode(h, "VisualLine"))
      [] im = InputMatch(NoModifier, CH.v)     -> Done(toggleMode(h, "Visual"))
      [] im = InputMatch(NoModifier, CH.hash)  -> Done(Invoke(h, "reverseSearchCurrentWord", <<>>))
      [] im = InputMatch(NoModifier, CH.star)  -> Done(Invoke(h, "searchCurrentWord", <<>>))
      [] im = InputMatch(NoModifier, CH.Y)     -> Done(execute(h, "Yank", "FullLine"))
      [] im = InputMatch(NoModifier, CH.a)     -> Done([h EXCEPT !.pendingTextObjectScope = "A"])
      [] im = InputMatch(NoModifier, CH.i)     -> Done([h EXCEPT !.pendingTextObjectScope = "Inner"])
      [] im = InputMatch(NoModifier, CH.y)     -> Done(execute(h, "Yank", "Selection"))
      [] im = InputMatch(NoModifier, CH.n)     -> Done(Invoke(h, "jumpToNextMatch", <<CountOr1(h)>>))
      [] im = InputMatch(Shift, CH.N)          -> Done(Invoke(h, "jumpToPreviousMatch", <<CountOr1(h)>>))
      [] OTHER -> NotDone(h)

handleVisualMode(h, ch, modifier) ==
    LET switched == parseModeSwitch(h, ch, modifier)
        counted == parseCount(h, ch, modifier)
        textObject == charToTextObject(ch)
        keyed == visualModeKey(h, ch, modifier)
    IN  IF switched.ok THEN switched.h
        ELSE IF counted.ok THEN counted.h
        ELSE IF h.pendingTextObjectScope # None /\ textObject # None
        THEN select(h, h.pendingTextObjectScope, textObject)
        ELSE IF keyed.ok THEN keyed.h
        ELSE parseTextObject(h, ch, modifier).h

\* The resize that drops nothing.
DropLast_keep(s) == s

\* searchTerm.resize(size - 1)
DropLast(s) == SubSeq(s, 1, Len(s) - 1)

\* handleSearchEditor with Escape leaving the term as typed.
handleSearchEditor_keepTerm(h, ch, modifier) ==
    LET im == InputMatch(modifier, ch)
        restored == IF h.searchEditMode = "ExternallyEnabled" THEN setMode(h, "Insert") ELSE h
    IN
    CASE im = InputMatch(NoModifier, CH.esc) ->
            Invoke([restored EXCEPT !.searchEditMode = "Disabled"], "searchCancel", <<>>)
      [] im = InputMatch(NoModifier, CH.cr) ->
            Invoke([restored EXCEPT !.searchEditMode = "Disabled"], "searchDone", <<>>)
      [] im = InputMatch(NoModifier, CH.bs) \/ im = InputMatch(NoModifier, CH.del) ->
            LET t == IF Len(h.searchTerm) > 0 THEN DropLast(h.searchTerm) ELSE h.searchTerm
            IN Invoke([h EXCEPT !.searchTerm = t], "updateSearchTerm", <<t>>)
      [] im = InputMatch(Control, CH.L) \/ im = InputMatch(Control, CH.U) ->
            Invoke([h EXCEPT !.searchTerm = <<>>], "updateSearchTerm", <<<<>>>>)
      [] OTHER ->
            IF ch >= 32 /\ (Without(modifier, Shift)) = NoModifier
            THEN LET t == Append(h.searchTerm, ch)
                 IN Invoke([h EXCEPT !.searchTerm = t], "updateSearchTerm", <<t>>)
            ELSE h

\* handleSearchEditor with Enter clearing the term, as Escape does.
handleSearchEditor_clearOnEnter(h, ch, modifier) ==
    LET im == InputMatch(modifier, ch)
        restored == IF h.searchEditMode = "ExternallyEnabled" THEN setMode(h, "Insert") ELSE h
    IN
    CASE im = InputMatch(NoModifier, CH.esc) \/ im = InputMatch(NoModifier, CH.cr) ->
            Invoke([restored EXCEPT !.searchTerm = <<>>, !.searchEditMode = "Disabled"],
                   IF ch = CH.esc THEN "searchCancel" ELSE "searchDone", <<>>)
      [] im = InputMatch(NoModifier, CH.bs) \/ im = InputMatch(NoModifier, CH.del) ->
            LET t == IF Len(h.searchTerm) > 0 THEN DropLast(h.searchTerm) ELSE h.searchTerm
            IN Invoke([h EXCEPT !.searchTerm = t], "updateSearchTerm", <<t>>)
      [] im = InputMatch(Control, CH.L) \/ im = InputMatch(Control, CH.U) ->
            Invoke([h EXCEPT !.searchTerm = <<>>], "updateSearchTerm", <<<<>>>>)
      [] OTHER ->
            IF ch >= 32 /\ (Without(modifier, Shift)) = NoModifier
            THEN LET t == Append(h.searchTerm, ch)
                 IN Invoke([h EXCEPT !.searchTerm = t], "updateSearchTerm", <<t>>)
            ELSE h

handleSearchEditor(h, ch, modifier) ==
    LET im == InputMatch(modifier, ch)
        restored == IF h.searchEditMode = "ExternallyEnabled" THEN setMode(h, "Insert") ELSE h
    IN
    CASE im = InputMatch(NoModifier, CH.esc) ->
            Invoke([restored EXCEPT !.searchTerm = <<>>, !.searchEditMode = "Disabled"],
                   "searchCancel", <<>>)
      [] im = InputMatch(NoModifier, CH.cr) ->
            Invoke([restored EXCEPT !.searchEditMode = "Disabled"], "searchDone", <<>>)
      [] im = InputMatch(NoModifier, CH.bs) \/ im = InputMatch(NoModifier, CH.del) ->
            LET t == IF Len(h.searchTerm) > 0 THEN DropLast(h.searchTerm) ELSE h.searchTerm
            IN Invoke([h EXCEPT !.searchTerm = t], "updateSearchTerm", <<t>>)
      [] im = InputMatch(Control, CH.L) \/ im = InputMatch(Control, CH.U) ->
            Invoke([h EXCEPT !.searchTerm = <<>>], "updateSearchTerm", <<<<>>>>)
      [] OTHER ->
            IF ch >= 32 /\ (Without(modifier, Shift)) = NoModifier
            THEN LET t == Append(h.searchTerm, ch)
                 IN Invoke([h EXCEPT !.searchTerm = t], "updateSearchTerm", <<t>>)
            ELSE h

\* sendCharPressEvent that handles characters in Insert mode as Normal mode does.
sendCharPressEvent_insert(h, ch, modifier) ==
    IF h.searchEditMode # "Disabled"
    THEN [ret |-> TRUE, h |-> handleSearchEditor(h, ch, modifier)]
    ELSE IF h.viMode \in {"Insert", "Normal"}
         THEN [ret |-> TRUE, h |-> handleNormalMode(h, ch, modifier)]
         ELSE [ret |-> TRUE, h |-> handleVisualMode(h, ch, modifier)]

\* Each entry point returns [ret |-> what the C++ returns, h |-> the handler after].
sendCharPressEvent(h, ch, modifier) ==
    IF h.searchEditMode # "Disabled"
    THEN [ret |-> TRUE, h |-> handleSearchEditor(h, ch, modifier)]
    ELSE CASE h.viMode = "Insert" -> [ret |-> FALSE, h |-> h]
           [] h.viMode = "Normal" -> [ret |-> TRUE, h |-> handleNormalMode(h, ch, modifier)]
           [] h.viMode \in VisualModes ->
                [ret |-> TRUE, h |-> handleVisualMode(h, ch, modifier)]

\* The motions of the switch of sendKeyPressEvent (lines 118-141).
KeyMotionOf(key) ==
    CASE key = "DownArrow"  -> "LineDown"
      [] key = "LeftArrow"  -> "CharLeft"
      [] key = "RightArrow" -> "CharRight"
      [] key = "UpArrow"    -> "LineUp"
      [] key = "Home"       -> "FileBegin"
      [] key = "End"        -> "FileEnd"
      [] key = "PageUp"     -> "PageUp"
      [] key = "PageDown"   -> "PageDown"
      [] OTHER -> None

\* sendKeyPressEvent that handles keys while the search editor is open.
sendKeyPressEvent_editing(h, key, modifier) ==
    IF h.viMode = "Insert" THEN [ret |-> FALSE, h |-> h]
    ELSE IF modifier # NoModifier THEN [ret |-> TRUE, h |-> h]
    ELSE IF key = "Insert" THEN [ret |-> TRUE, h |-> setMode(h, "Insert")]
    ELSE IF KeyMotionOf(key) # None
         THEN [ret |-> TRUE, h |-> executePendingOrMoveCursor(h, KeyMotionOf(key))]
         ELSE [ret |-> TRUE, h |-> h]

sendKeyPressEvent(h, key, modifier) ==
    IF h.searchEditMode # "Disabled" THEN [ret |-> TRUE, h |-> h]
    ELSE IF h.viMode = "Insert" THEN [ret |-> FALSE, h |-> h]
    ELSE IF modifier # NoModifier THEN [ret |-> TRUE, h |-> h]
    ELSE IF key = "Insert" THEN [ret |-> TRUE, h |-> setMode(h, "Insert")]
    ELSE IF KeyMotionOf(key) # None
         THEN [ret |-> TRUE, h |-> executePendingOrMoveCursor(h, KeyMotionOf(key))]
         ELSE [ret |-> TRUE, h |-> h]

\* startSearchExternally leaving Insert mode as it is.
startSearchExternally_keepMode(h) ==
    Invoke([h EXCEPT !.searchTerm = <<>>, !.searchEditMode = "ExternallyEnabled"],
           "searchStart", <<>>)

startSearchExternally(h) ==
    LET started == Invoke([h EXCEPT !.searchTerm = <<>>], "searchStart", <<>>) IN
    IF h.viMode # "Insert"
    THEN [started EXCEPT !.searchEditMode = "Enabled"]
    ELSE setMode([started EXCEPT !.searchEditMode = "ExternallyEnabled"], "Normal")

(***************************************************************************)
(* RenderBufferBuilder: state                                              *)
(***************************************************************************)
VARIABLES
    terminal,   \* what the builder reads of the Terminal; fixed while a frame is built
    builder,    \* the RenderBufferBuilder's fields; builder.output is the RenderBuffer
    frame       \* the caller's position in the frame, and the lines it has passed

renderVars == <<terminal, builder, frame>>

\* The file-local functions of RenderBufferBuilder.cpp are pure: applied holds the
\* last application of one of them, its arguments and its result.
VARIABLE applied

pureVars == <<applied>>

\* The code points of the screen texts.
CP == [a |-> 97, b |-> 98, acute |-> 769, han |-> 28450, vs16 |-> 65039]

\* unicode::width of the code points of CP.
UnicodeWidth(codepoint) ==
    CASE codepoint = CP.han -> 2
      [] codepoint \in {CP.acute, CP.vs16} -> 0
      [] OTHER -> 1

\* The width of the base code point, whatever follows it.
graphemeClusterWidth_base(cluster) == UnicodeWidth(cluster[1])

graphemeClusterWidth(cluster) ==
    IF \E i \in 2..Len(cluster) : cluster[i] = CP.vs16 THEN 2
    ELSE UnicodeWidth(cluster[1])

\* An RGBColor: its red, green and blue channels, each 8 bits wide.
RGBColor(r, g, b) == <<r, g, b>>

\* A CellRGBColor: the cell's effective foreground, its effective background, or a
\* literal RGBColor.
CellForegroundColor == [kind |-> "CellForegroundColor"]
CellBackgroundColor == [kind |-> "CellBackgroundColor"]
CellRGB(color) == [kind |-> "RGBColor", color |-> color]

RGBColorPair(foreground, background) == [foreground |-> foreground, background |-> background]

\* mix(a, b, t) of two colors, t in percent: per channel, a weighs 1 - t and b weighs
\* t, as the compositing of a cursor on a selected cell (t = 0.25) is specified.
mix(a, b, t) == [i \in 1..3 |-> (a[i] * (100 - t) + b[i] * t) \div 100]

\* mix(a, b, t) of two pairs
mixPair(a, b, t) ==
    RGBColorPair(mix(a.foreground, b.foreground, t), mix(a.background, b.background, t))

\* RGBColorPair::distinct(): the pair itself when its colors differ, else the
\* foreground is inverted.
distinct(pair) ==
    IF pair.foreground # pair.background THEN pair
    ELSE RGBColorPair([i \in 1..3 |-> 255 - pair.foreground[i]], pair.background)

makeRGBColor(actualColors, configuredColor) ==
    IF configuredColor.kind = "CellForegroundColor" THEN actualColors.foreground
    ELSE IF configuredColor.kind = "CellBackgroundColor" THEN actualColors.background
    ELSE configuredColor.color

makeRGBColorPair(actualColors, configuredColor) ==
    distinct(RGBColorPair(mix(makeRGBColor(actualColors, configuredColor.foreground),
                              actualColors.foreground, configuredColor.foregroundAlpha),
                          mix(makeRGBColor(actualColors, configuredColor.background),
                              actualColors.background, configuredColor.backgroundAlpha)))

\* makeColors with the selection taking precedence over the yank highlight.
makeColors_selectionFirst(colorPalette, sgrColors, selected, isCursor, isHighlighted) ==
    LET selectionColors == IF selected THEN makeRGBColorPair(sgrColors, colorPalette.selection)
                           ELSE sgrColors
        cursorColor ==
            RGBColorPair(makeRGBColor(selectionColors, colorPalette.cursor.textOverrideColor),
                         makeRGBColor(selectionColors, colorPalette.cursor.color))
    IN  IF ~selected /\ ~isCursor /\ ~isHighlighted THEN sgrColors
        ELSE IF ~isCursor /\ selected THEN selectionColors
        ELSE IF ~isCursor THEN makeRGBColorPair(sgrColors, colorPalette.yankHighlight)
        ELSE IF ~selected
        THEN distinct(RGBColorPair(makeRGBColor(sgrColors, colorPalette.cursor.textOverrideColor),
                                   makeRGBColor(sgrColors, colorPalette.cursor.color)))
        ELSE distinct(mixPair(cursorColor, selectionColors, 25))

\* makeColors (lines 64-108); sgrColors is the pair its seven-argument overload
\* returns for the cell's flags and colors, reverse video and the blink phases.
makeColors(colorPalette, sgrColors, selected, isCursor, isHighlighted) ==
    LET selectionColors == IF selected THEN makeRGBColorPair(sgrColors, colorPalette.selection)
                           ELSE sgrColors
        cursorColor ==
            RGBColorPair(makeRGBColor(selectionColors, colorPalette.cursor.textOverrideColor),
                         makeRGBColor(selectionColors, colorPalette.cursor.color))
    IN  IF ~selected /\ ~isCursor /\ ~isHighlighted THEN sgrColors
        ELSE IF ~isCursor /\ isHighlighted
        THEN makeRGBColorPair(sgrColors, colorPalette.yankHighlight)
        ELSE IF ~isCursor THEN selectionColors
        ELSE IF ~selected
        THEN distinct(RGBColorPair(makeRGBColor(sgrColors, colorPalette.cursor.textOverrideColor),
                                   makeRGBColor(sgrColors, colorPalette.cursor.color)))
        ELSE distinct(mixPair(cursorColor, selectionColors, 25))

CellLocation(line, column) == [line |-> line, column |-> column]

\* The viewport is not scrolled: screen and grid coordinates coincide.
translateScreenToGridCoordinate(pos) == pos

translateGridToScreenCoordinate(pos) == pos

\* CellLocationRange { first, second }.contains(pos)
RangeContains(first, second, pos) ==
    /\ first.line < pos.line \/ (first.line = pos.line /\ first.column <= pos.column)
    /\ pos.line < second.line \/ (pos.line = second.line /\ pos.column <= second.column)

\* A RenderCell.  colors stands for the attributes' color pair: the highlight pairs
\* composited, in order, over the pair makeColorsForCell gave the cell.
makeRenderCellExplicit(graphemeCluster, width, line, column) ==
    [position |-> CellLocation(line, column), width |-> width,
     codepoints |-> graphemeCluster, groupStart |-> FALSE, groupEnd |-> FALSE,
     colors |-> <<>>]

\* The overload of makeRenderCellExplicit that takes one code point.
makeRenderCellExplicitOf(codepoint, line, column) ==
    [position |-> CellLocation(line, column), width |-> 1,
     codepoints |-> IF codepoint # 0 THEN <<codepoint>> ELSE <<>>,
     groupStart |-> FALSE, groupEnd |-> FALSE, colors |-> <<>>]

makeRenderCell(screenCell, line, column) ==
    [position |-> CellLocation(line, column), width |-> screenCell.width,
     codepoints |-> screenCell.codepoints, groupStart |-> FALSE, groupEnd |-> FALSE,
     colors |-> <<>>]

\* An optional<RenderCursor>: the empty sequence for nullopt, else the cursor alone.
renderCursor(term, cursorPosition) ==
    IF ~term.cursorCurrentlyVisible
           \/ ~(cursorPosition.line >= 0 /\ cursorPosition.line < term.pageSize.lines)
    THEN <<>>
    ELSE <<[position |-> cursorPosition, shape |-> term.cursorShape]>>

\* The builder as constructed.  state, isNewLine, lineNr, prevWidth, prevHasCursor,
\* searchPatternOffset and inputMethodSkipColumns start from their declared defaults.
\* fault is None until a call throws ("out_of_range") or its behaviour is undefined
\* ("undefined"); halted says that a call did not return, so that the frame ends there.
\* composed lists the calls of makeColorsForCell so far: the grid position composed
\* for, and the cursor flag handed to makeColors.
RenderBufferBuilder(term, mode, base, highlightSearchMatches, inputMethodData) ==
    LET cursorPosition == IF mode = "Insert" THEN term.realCursorPosition
                          ELSE term.viCursorPosition
    IN  [output |-> [cells |-> <<>>, lines |-> <<>>,
                     cursor |-> renderCursor(term, cursorPosition)],
         cursorPosition |-> cursorPosition,
         baseLine |-> base,
         highlightSearchMatches |-> highlightSearchMatches,
         inputMethodData |-> inputMethodData,
         state |-> "Gap",
         isNewLine |-> FALSE,
         lineNr |-> 0,
         prevWidth |-> 0,
         prevHasCursor |-> FALSE,
         searchPatternOffset |-> 0,
         inputMethodSkipColumns |-> 0,
         fault |-> None,
         halted |-> FALSE,
         composed |-> <<>>]

\* The call of makeColors that makeColorsForCell makes for the grid position: the
\* position, and paintCursor, the cursor flag it passes.
makeColorsForCell(b, gridPosition) ==
    LET hasCursor == gridPosition = b.cursorPosition
        paintCursor ==
            /\ hasCursor \/ (b.prevHasCursor /\ b.prevWidth = 2)
            /\ b.output.cursor # <<>>
            /\ b.output.cursor[1].shape = "Block"
    IN  [position |-> gridPosition, isCursor |-> paintCursor]

\* createRenderAttributes composes the colors of the grid position.
createRenderAttributes(b, gridPosition) == makeColorsForCell(b, gridPosition)

\* output.cells.back().groupEnd = true
MarkBackGroupEnd(b) ==
    [b EXCEPT !.output.cells[Len(b.output.cells)].groupEnd = TRUE]

\* beginsWith(text, textCell): the cell's code points, at least one, start the text.
beginsWith(text, textCell) ==
    /\ Len(textCell) > 0
    /\ Len(text) >= Len(textCell)
    /\ SubSeq(text, 1, Len(textCell)) = textCell

\* The outcomes of undefined behaviour: the call faults (the frame is not finished),
\* or it goes on, the stray access having read or written memory outside the cells.
UndefinedOutcomes == {"fault", "continue"}

Undefined(b, ub) == [b EXCEPT !.fault = "undefined", !.halted = (ub = "fault")]

\* An exception leaves the call.
Throw(b, exception) == [b EXCEPT !.fault = exception, !.halted = TRUE]

\* textCell: the code points of the Cell, or of the grapheme cluster.
matchSearchPattern(b, textCell, ub) ==
    LET pattern == terminal.searchPattern
        rest == SubSeq(pattern, b.searchPatternOffset + 1, Len(pattern))
        offset == b.searchPatternOffset + Len(textCell)
        size == Len(b.output.cells)
        \* offsetIntoFront, as a 1-based index
        front == size - offset + 1
        isFocusedMatch ==
            RangeContains(b.output.cells[front].position, b.output.cells[size].position,
                          translateGridToScreenCoordinate(terminal.viCursorPosition))
        pair == IF isFocusedMatch THEN "searchHighlightFocused" ELSE "searchHighlight"
    IN  IF ~b.highlightSearchMatches THEN b
        ELSE IF pattern = <<>> THEN b
        ELSE IF ~beginsWith(rest, textCell) THEN [b EXCEPT !.searchPatternOffset = 0]
        ELSE IF offset < Len(pattern) THEN [b EXCEPT !.searchPatternOffset = offset]
        ELSE IF offset > size
             \* size - searchPatternOffset wraps: cells[offsetIntoFront] is out of range,
             \* and the loop from it recolors nothing
             THEN IF ub = "fault"
                  THEN Undefined([b EXCEPT !.searchPatternOffset = offset], ub)
                  ELSE Undefined([b EXCEPT !.searchPatternOffset = 0], ub)
        ELSE [b EXCEPT !.searchPatternOffset = 0,
                       !.output.cells = [i \in 1..size |->
                            IF i >= front
                            THEN [b.output.cells[i] EXCEPT !.colors = Append(@, pair)]
                            ELSE b.output.cells[i]]]

startLine(b, line) ==
    [b EXCEPT !.isNewLine = TRUE, !.lineNr = line, !.prevWidth = 0, !.prevHasCursor = FALSE]

endLine(b) == IF b.output.cells # <<>> THEN MarkBackGroupEnd(b) ELSE b

\* The loop of renderUtf8Text from the i-th grapheme cluster of text on, rendered
\* columns having been rendered before it.
RECURSIVE renderUtf8TextFrom(_, _, _, _, _, _, _)
renderUtf8TextFrom(b, screenPosition, text, i, rendered, allowMatchSearchPattern, ub) ==
    IF i > Len(text) \/ b.halted
    THEN [b |-> b, columnCountRendered |-> rendered]
    ELSE LET width == graphemeClusterWidth(text[i])
             cell == makeRenderCellExplicit(text[i], width, b.baseLine + screenPosition.line,
                                            screenPosition.column + rendered)
             gridPosition ==
                 translateScreenToGridCoordinate(
                     CellLocation(screenPosition.line, screenPosition.column + rendered))
             emitted == [b EXCEPT !.composed = Append(@, makeColorsForCell(b, gridPosition)),
                                  !.output.cells = Append(@, cell),
                                  !.lineNr = screenPosition.line,
                                  !.prevWidth = 0,
                                  !.prevHasCursor = FALSE]
             matched == IF allowMatchSearchPattern
                        THEN matchSearchPattern(emitted, text[i], ub)
                        ELSE emitted
         IN  renderUtf8TextFrom(matched, screenPosition, text, i + 1, rendered + width,
                                allowMatchSearchPattern, ub)

\* text: the grapheme clusters the segmenter yields, in order.
renderUtf8Text(b, screenPosition, text, allowMatchSearchPattern, ub) ==
    renderUtf8TextFrom(b, screenPosition, text, 1, 0, allowMatchSearchPattern, ub)

Min(x, y) == IF x <= y THEN x ELSE y

\* The RenderLine of a trivial line; its attributes are composed for the line's
\* first column.
createRenderLine(b, lineBuffer, lineOffset) ==
    LET gridPosition == translateScreenToGridCoordinate(CellLocation(lineOffset, 0))
    IN  [lineOffset |-> lineOffset, usedColumns |-> lineBuffer.usedColumns,
         text |-> lineBuffer.text,
         textAttributes |-> createRenderAttributes(b, gridPosition),
         fillAttributes |-> createRenderAttributes(b, gridPosition)]

\* The branch of renderTrivialLine that hands the line over as one RenderLine.
renderSimpleLine(b, lineBuffer, lineOffset) ==
    [b EXCEPT !.output.lines = Append(@, createRenderLine(b, lineBuffer, lineOffset)),
              !.lineNr = lineOffset,
              !.prevWidth = 0,
              !.prevHasCursor = FALSE]

\* renderTrivialLine with canRenderViaSimpleLine true.
renderTrivialLine_simpleLine(b, lineBuffer, lineOffset, ub) ==
    renderSimpleLine(b, lineBuffer, lineOffset)

renderTrivialLine(b, lineBuffer, lineOffset, ub) ==
    LET frontIndex == Len(b.output.cells)
        canRenderViaSimpleLine == FALSE
        textMargin == Min(terminal.pageSize.columns, lineBuffer.usedColumns)
        pageColumnsEnd == terminal.pageSize.columns
        text == renderUtf8Text([b EXCEPT !.searchPatternOffset = 0],
                               CellLocation(lineOffset, 0), lineBuffer.text, TRUE, ub).b
        fill == [k \in 1..(IF pageColumnsEnd > textMargin THEN pageColumnsEnd - textMargin
                           ELSE 0) |->
                    makeRenderCellExplicitOf(0, b.baseLine + lineOffset, textMargin + k - 1)]
        fillAttributes ==
            [k \in DOMAIN fill |->
                createRenderAttributes(
                    text, translateScreenToGridCoordinate(
                              CellLocation(lineOffset, textMargin + k - 1)))]
        filled == [text EXCEPT !.output.cells = @ \o fill,
                               !.composed = @ \o fillAttributes]
        size == Len(filled.output.cells)
    IN  IF canRenderViaSimpleLine THEN renderSimpleLine(b, lineBuffer, lineOffset)
        ELSE IF text.halted THEN text
        ELSE IF frontIndex >= size
             \* no cell was emitted: cells[frontIndex] and cells[size - 1] are out of range
             THEN Undefined(filled, ub)
        ELSE [filled EXCEPT !.output.cells[frontIndex + 1].groupStart = TRUE,
                            !.output.cells[size].groupEnd = TRUE]

\* The input-method block of renderCell (lines 494-514).
renderPreedit(b, screenPosition, ub) ==
    LET closed == IF b.output.cells # <<>> THEN MarkBackGroupEnd(b) ELSE b
        text == renderUtf8Text(closed, screenPosition, b.inputMethodData.preeditString,
                               FALSE, ub)
        skip == text.columnCountRendered
        skipping == [text.b EXCEPT !.inputMethodSkipColumns = skip]
        size == Len(skipping.output.cells)
        \* output.cursor->position.column += ...: undefined when there is no cursor
        advanced ==
            IF skipping.output.cursor = <<>>
            THEN Undefined(skipping, ub)
            ELSE [skipping EXCEPT !.output.cursor[1].position.column = @ + skip]
        \* output.cells.at(size - skip) throws when size - skip wraps
        marked ==
            IF skip > size THEN Throw(advanced, "out_of_range")
            ELSE [advanced EXCEPT !.output.cells[size - skip + 1].groupStart = TRUE,
                                  !.output.cells[size].groupEnd = TRUE]
    IN  IF skip > 0
        THEN IF advanced.halted THEN advanced
             ELSE IF marked.halted THEN marked
             ELSE [marked EXCEPT !.state = "Gap"]
        ELSE [skipping EXCEPT !.state = "Gap"]

\* The run automaton of renderCell (lines 532-568).
renderCellState(b, screenCell, line, column) ==
    LET cellEmpty == screenCell.codepoints = <<>>
        customBackground == screenCell.customBackground
        cell == makeRenderCell(screenCell, b.baseLine + line, column)
    IN  CASE b.state = "Gap" ->
                IF ~cellEmpty \/ customBackground
                THEN [b EXCEPT !.state = "Sequence",
                               !.output.cells = Append(@, [cell EXCEPT !.groupStart = TRUE])]
                ELSE b
          [] b.state = "Sequence" ->
                IF cellEmpty /\ ~customBackground
                THEN [MarkBackGroupEnd(b) EXCEPT !.state = "Gap"]
                ELSE [b EXCEPT !.output.cells =
                                    Append(@, [cell EXCEPT !.groupStart = b.isNewLine])]

\* Whether renderCell returns at its lines 516-521, the grid cell of the column not
\* being rendered.
skipsGridCell(b, line, column, ub) ==
    LET screenPosition == CellLocation(line, column)
        preedited ==
            IF translateScreenToGridCoordinate(screenPosition) = b.cursorPosition
                   /\ b.inputMethodData.preeditString # <<>>
            THEN renderPreedit(b, screenPosition, ub)
            ELSE b
    IN  ~preedited.halted /\ preedited.inputMethodSkipColumns > 0

renderCell(b, screenCell, line, column, ub) ==
    LET screenPosition == CellLocation(line, column)
        gridPosition == translateScreenToGridCoordinate(screenPosition)
        preedited ==
            IF gridPosition = b.cursorPosition /\ b.inputMethodData.preeditString # <<>>
            THEN renderPreedit(b, screenPosition, ub)
            ELSE b
        tracked == [preedited EXCEPT
                       !.composed = Append(@, makeColorsForCell(preedited, gridPosition)),
                       !.prevWidth = screenCell.width,
                       !.prevHasCursor = (gridPosition = b.cursorPosition)]
        rendered == [renderCellState(tracked, screenCell, line, column)
                        EXCEPT !.isNewLine = FALSE]
    IN  IF preedited.halted THEN preedited
        ELSE IF preedited.inputMethodSkipColumns > 0
        THEN [preedited EXCEPT !.inputMethodSkipColumns = @ - 1]
        ELSE matchSearchPattern(rendered, screenCell.codepoints, ub)

(***************************************************************************)
(* RenderBufferBuilder: the frames built, and the caller's steps           *)
(***************************************************************************)

\* Bounds of a frame: the page, and the grapheme clusters of a preedit string and of
\* a trivial line's text.
PageLines == 2
PageColumns == 3
MaxPreedit == 2
MaxText == 2

BoundedSeq(S, n) == UNION {[1..k -> S] : k \in 0..n}

RECURSIVE TextWidth(_)
TextWidth(text) ==
    IF text = <<>> THEN 0 ELSE graphemeClusterWidth(Head(text)) + TextWidth(Tail(text))

\* A grid cell holding the grapheme cluster.
TextCell(cluster) ==
    [codepoints |-> cluster, width |-> graphemeClusterWidth(cluster),
     customBackground |-> FALSE]

\* A grid cell without text, with the default or with a background of its own.
BlankCell(customBackground) ==
    [codepoints |-> <<>>, width |-> 1, customBackground |-> customBackground]

\* The grid cells, the trivial lines' texts and the preedit strings of a frame with an
\* input method: a narrow and a wide cluster.
ImeClusters == {<<CP.a>>, <<CP.han>>}
ImeCells == {BlankCell(FALSE), BlankCell(TRUE)} \cup {TextCell(c) : c \in ImeClusters}
ImeTexts == {t \in BoundedSeq(ImeClusters, MaxText) : TextWidth(t) <= PageColumns}
Preedits == BoundedSeq(ImeClusters, MaxPreedit)
\* The preedit strings that begin with a combining mark, a cluster of its own that
\* takes no column.
MarkPreedits ==
    {<<(<<CP.acute>>)>> \o p : p \in BoundedSeq(ImeClusters, MaxPreedit - 1)}

\* The grid cells, the texts and the patterns of a frame with search highlighting: a
\* and b, and a cell of two code points.
SearchClusters == {<<CP.a>>, <<CP.b>>, <<CP.a, CP.acute>>}
SearchCells == {BlankCell(FALSE)} \cup {TextCell(c) : c \in SearchClusters}
SearchTexts == {t \in BoundedSeq(SearchClusters \ {<<CP.a, CP.acute>>}, MaxText) :
                    TextWidth(t) <= PageColumns}
SearchPatterns == {<<CP.a, CP.b>>, <<CP.a, CP.acute, CP.b>>}

PageSize == [lines |-> PageLines, columns |-> PageColumns]

Terminal(cursorPosition, cursorCurrentlyVisible, searchPattern) ==
    [pageSize |-> PageSize,
     cursorCurrentlyVisible |-> cursorCurrentlyVisible,
     cursorShape |-> "Block",
     realCursorPosition |-> cursorPosition,
     viCursorPosition |-> cursorPosition,
     searchPattern |-> searchPattern]

\* The caller before the first line: the next line and column to render, whether a
\* line of cells is open, and the lines passed so far, each the cells (code points and
\* column) the caller handed over, with whether it was handed to renderCell as a cell,
\* and whether renderCell then skipped it.
FrameStart == [line |-> 0, column |-> 0, phase |-> "idle", grid |-> <<>>]

\* No frame is built: the caller has passed every line of an empty page.
NoFrame ==
    /\ terminal = Terminal(CellLocation(0, 0), FALSE, <<>>)
    /\ builder = RenderBufferBuilder(terminal, "Normal", 0, FALSE, [preeditString |-> <<>>])
    /\ frame = [FrameStart EXCEPT !.line = PageLines]

\* A frame under an input method: the handler is in Insert mode, the cursor on the
\* first line.
ImeFrame ==
    /\ terminal \in {Terminal(CellLocation(0, column), visible, <<>>) :
                        column \in 0..(PageColumns - 1), visible \in BOOLEAN}
    /\ builder \in {RenderBufferBuilder(terminal, "Insert", 0, FALSE, [preeditString |-> p]) :
                        p \in Preedits}
    /\ frame = FrameStart

\* A frame under an input method whose preedit string may begin with a combining
\* mark.
MarkFrame ==
    /\ terminal \in {Terminal(CellLocation(0, column), visible, <<>>) :
                        column \in 0..(PageColumns - 1), visible \in BOOLEAN}
    /\ builder \in {RenderBufferBuilder(terminal, "Insert", 0, FALSE, [preeditString |-> p]) :
                        p \in Preedits \cup MarkPreedits}
    /\ frame = FrameStart

\* A frame without preedit string and search pattern, the cursor at its first cell.
PlainFrame ==
    /\ terminal = Terminal(CellLocation(0, 0), TRUE, <<>>)
    /\ builder = RenderBufferBuilder(terminal, "Normal", 0, FALSE, [preeditString |-> <<>>])
    /\ frame = FrameStart

\* A frame with search highlighting: the handler is in Normal mode.
SearchFrame ==
    /\ terminal \in {Terminal(CellLocation(line, 1), TRUE, pattern) :
                        line \in 0..(PageLines - 1), pattern \in SearchPatterns}
    /\ builder = RenderBufferBuilder(terminal, "Normal", 0, TRUE, [preeditString |-> <<>>])
    /\ frame = FrameStart

Rendering == ~builder.halted /\ frame.line < terminal.pageSize.lines

\* The caller opens a line of cells.
StartLine ==
    /\ Rendering
    /\ frame.phase = "idle"
    /\ builder' = startLine(builder, frame.line)
    /\ frame' = [frame EXCEPT !.phase = "line", !.column = 0, !.grid = Append(@, <<>>)]
    /\ UNCHANGED <<terminal, viVars, pureVars>>

\* The caller hands over the cell of the next column.
RenderCell(screenCells) ==
    /\ Rendering
    /\ frame.phase = "line"
    /\ frame.column < terminal.pageSize.columns
    /\ \E screenCell \in screenCells, ub \in UndefinedOutcomes :
          /\ builder' = renderCell(builder, screenCell, frame.line, frame.column, ub)
          /\ frame' = [frame EXCEPT
                          !.column = @ + 1,
                          !.grid[Len(frame.grid)] =
                              Append(@, [codepoints |-> screenCell.codepoints,
                                         column |-> frame.column, cell |-> TRUE,
                                         skipped |-> skipsGridCell(builder, frame.line,
                                                                   frame.column, ub)])]
    /\ UNCHANGED <<terminal, viVars, pureVars>>

\* The caller closes the line after its last column.
EndLine ==
    /\ Rendering
    /\ frame.phase = "line"
    /\ frame.column = terminal.pageSize.columns
    /\ builder' = endLine(builder)
    /\ frame' = [frame EXCEPT !.phase = "idle", !.line = @ + 1]
    /\ UNCHANGED <<terminal, viVars, pureVars>>

\* The cells of a trivial line's text, each cluster at the column its predecessors
\* leave it.
RECURSIVE TextColumns(_, _)
TextColumns(text, column) ==
    IF text = <<>> THEN <<>>
    ELSE <<[codepoints |-> Head(text), column |-> column, cell |-> FALSE,
            skipped |-> FALSE]>>
             \o TextColumns(Tail(text), column + graphemeClusterWidth(Head(text)))

\* The caller hands over a whole line held as text.
RenderTrivialLine(texts) ==
    /\ Rendering
    /\ frame.phase = "idle"
    /\ \E text \in texts, ub \in UndefinedOutcomes :
          /\ builder' = renderTrivialLine(builder,
                                          [text |-> text, usedColumns |-> TextWidth(text)],
                                          frame.line, ub)
          /\ frame' = [frame EXCEPT !.line = @ + 1,
                                    !.grid = Append(@, TextColumns(text, 0))]
    /\ UNCHANGED <<terminal, viVars, pureVars>>

\* The grid cells of a frame without input method and search pattern.
PlainCells == {BlankCell(FALSE), TextCell(<<CP.a>>)}

PlainNext == StartLine \/ RenderCell(PlainCells) \/ EndLine \/ RenderTrivialLine(ImeTexts)

ImeNext == StartLine \/ RenderCell(ImeCells) \/ EndLine \/ RenderTrivialLine(ImeTexts)

SearchNext ==
    StartLine \/ RenderCell(SearchCells) \/ EndLine \/ RenderTrivialLine(SearchTexts)

(***************************************************************************)
(* ViInputHandler: inputs, initial state and actions                       *)
(***************************************************************************)

\* Bounds of the input: the count digits typed in a row, and the search term's length.
MaxDigits == 1
MaxCountDigits == 10
MaxMotionDigits == 2
MaxTerm == 2

Keys == {"DownArrow", "LeftArrow", "RightArrow", "UpArrow", "Insert", "Home", "End",
         "PageUp", "PageDown", "F1"}
\* The characters typed: every literal of the handler, and 'x', which it does not map.
ViChars == {CH[f] : f \in DOMAIN CH} \ {CH.d9}
\* The character events sent while the search editor is closed: every character
\* unmodified, and the modified ones the handler tells apart.
ViInputs ==
    {<<c, NoModifier>> : c \in ViChars}
        \cup {<<c, Shift>> : c \in {CH.V, CH.N, CH.Y, CH.y, CH.J, CH.K, CH.d3, CH.p, CH.i}}
        \cup {<<c, Control>> : c \in {CH.V, CH.D, CH.U, CH.p, CH.d3, CH.y}}
        \cup {<<CH.V, Control + Shift>>, <<CH.j, Alt>>, <<CH.w, Alt>>}
\* The character events of the motion table, with and without Shift, the count
\* digits 0 and 3 with and without modifiers, and y and i, which leave an operator
\* and a scope pending.
MotionInputs ==
    {<<c, m>> : c \in {CH.h, CH.l, CH.j, CH.k, CH.w, CH.b, CH.e, CH.d0, CH.caret, CH.dollar,
                       CH.g, CH.G, CH.H, CH.L, CH.lbrace, CH.rbrace, CH.percent, CH.bar,
                       CH.d3},
                m \in {NoModifier, Shift}}
        \cup {<<c, m>> : c \in {CH.U, CH.D, CH.d0, CH.d3}, m \in {Control, Control + Shift}}
        \cup {<<CH.y, NoModifier>>, <<CH.i, NoModifier>>, <<CH.d3, Alt>>}
\* The character events sent while the search editor is open.
SearchInputs ==
    {<<c, NoModifier>> : c \in {CH.esc, CH.cr, CH.bs, CH.del, CH.a}}
        \cup {<<c, Control>> : c \in {CH.L, CH.U, CH.A, CH.esc, CH.l}}
        \cup {<<c, Shift>> : c \in {CH.a, CH.cr, CH.esc, CH.bs, CH.del}}
        \cup {<<CH.a, Alt>>, <<CH.L, Control + Shift>>}
\* The character events that switch the mode, open the search editor, leave an
\* operator, a scope or a count pending, or run a command.
ModeInputs ==
    {<<c, NoModifier>> : c \in {CH.esc, CH.cr, CH.v, CH.V, CH.i, CH.a, CH.y, CH.p, CH.w,
                                 CH.j, CH.slash, CH.d3, CH.x}}
        \cup {<<CH.V, Shift>>, <<CH.v, Shift>>, <<CH.V, Control>>, <<CH.V, Control + Shift>>,
              <<CH.i, Shift>>}
\* The key events sent.
KeyInputs ==
    {<<key, NoModifier>> : key \in Keys} \cup {<<"DownArrow", Shift>>, <<"Insert", Control>>}
\* The characters of a long count followed by a command: the digits 0 and 9, then a
\* motion (j, J, which also scrolls, w, G, $, |, and 0 itself when no count is being
\* typed), y or p.
CountChars == {CH.d0, CH.d9, CH.y, CH.p, CH.j, CH.J, CH.w, CH.G, CH.dollar, CH.bar}
\* The keys pressed after a long count.
CountKeys == {"DownArrow", "End", "PageUp"}

\* Whether the character is consumed by parseCount (parseModeSwitch, which runs
\* before it, matches no digit).
CountDigit(h, ch, modifier) ==
    /\ h.searchEditMode = "Disabled"
    /\ h.viMode # "Insert"
    /\ parseCount(h, ch, modifier).ok

\* typed: whether count was 0 before the current run of count digits, and if so the
\* digits typed since.
NoTyped == [fromZero |-> TRUE, digits |-> <<>>]

\* The state once an entry point has returned r; digit says that the operation was a
\* count digit, of value d.
Commit(r, event, digit, d) ==
    /\ viMode' = r.h.viMode
    /\ count' = r.h.count
    /\ pendingOperator' = r.h.pendingOperator
    /\ pendingTextObjectScope' = r.h.pendingTextObjectScope
    /\ searchEditMode' = r.h.searchEditMode
    /\ searchTerm' = r.h.searchTerm
    /\ calls' = r.h.calls
    /\ ret' = r.ret
    /\ lastEvent' = event
    /\ typed' = IF digit
                THEN IF typed.fromZero THEN [typed EXCEPT !.digits = Append(@, d)]
                     ELSE typed
                ELSE [NoTyped EXCEPT !.fromZero = (r.h.count = U32(0))]
    /\ nDigits' = IF digit THEN nDigits + 1
                  ELSE IF r.h.count = U32(0) THEN 0 ELSE nDigits
    /\ searchOrigin' = IF r.h.searchEditMode = "Disabled" THEN None
                       ELSE IF searchEditMode = "Disabled" THEN viMode
                       ELSE searchOrigin
    /\ reportedTerm' =
          LET updates == SelectSeq(r.h.calls, LAMBDA c : c.fn = "updateSearchTerm")
          IN  IF updates # <<>> THEN <<updates[Len(updates)].args[1]>>
              ELSE IF searchEditMode = "Disabled" THEN <<>>
              ELSE IF \E i \in DOMAIN r.h.calls : r.h.calls[i].fn = "searchStart" THEN <<>>
              ELSE reportedTerm
    /\ notifiedMode' =
          LET changes == SelectSeq(r.h.calls, LAMBDA c : c.fn = "modeChanged")
          IN  IF notifiedMode.kept /\ changes # <<>>
              THEN [notifiedMode EXCEPT !.mode = <<changes[Len(changes)].args[1]>>]
              ELSE notifiedMode
    /\ UNCHANGED <<renderVars, pureVars>>

CharPress(ch, modifier, maxDigits) ==
    \E r \in {sendCharPressEvent(Handler, ch, modifier)},
       digit \in {CountDigit(Handler, ch, modifier)} :
        /\ digit => nDigits < maxDigits
        /\ Len(r.h.searchTerm) <= MaxTerm
        /\ Commit(r, [kind |-> "char", ch |-> ch, key |-> None, modifier |-> modifier],
                  digit, ch - CH.d0)

KeyPress(key, modifier) ==
    \E r \in {sendKeyPressEvent(Handler, key, modifier)} :
        Commit(r, [kind |-> "key", ch |-> 0, key |-> key, modifier |-> modifier], FALSE, 0)

\* The handler as constructed in one of the modes, the history of modeChanged being
\* kept or not.
ViInputHandlerNotifying(modes, kept) ==
    /\ viMode \in modes
    /\ count = U32(0)
    /\ pendingOperator = None
    /\ pendingTextObjectScope = None
    /\ searchEditMode = "Disabled"
    /\ searchTerm = <<>>
    /\ calls = <<>>
    /\ lastEvent = [kind |-> "none", ch |-> 0, key |-> None, modifier |-> NoModifier]
    /\ ret = FALSE
    /\ typed = NoTyped
    /\ nDigits = 0
    /\ searchOrigin = None
    /\ reportedTerm = <<>>
    /\ notifiedMode = [kept |-> kept, mode |-> <<>>]

\* The handler as constructed in one of the modes.
ViInputHandler(modes) == ViInputHandlerNotifying(modes, FALSE)

\* No pure function has been applied.
NoApplication == applied = [fn |-> "none"]

ViInit == ViInputHandler(ViModes) /\ NoFrame /\ NoApplication

ViCountInit == ViInputHandler({"Normal"}) /\ NoFrame /\ NoApplication

ViMotionInit == ViInputHandler(ViModes \ {"Insert"}) /\ NoFrame /\ NoApplication

ImeInit == ViInputHandler({"Insert"}) /\ ImeFrame /\ NoApplication

SearchInit == ViInputHandler({"Normal"}) /\ SearchFrame /\ NoApplication

PureInit == ViInputHandler({"Normal"}) /\ NoFrame /\ NoApplication

PlainInit == ViInputHandler({"Normal"}) /\ PlainFrame /\ NoApplication

ViModeInit == ViInputHandlerNotifying(ViModes, TRUE) /\ NoFrame /\ NoApplication

MarkInit == ViInputHandler({"Insert"}) /\ MarkFrame /\ NoApplication

SendCharPressEvent ==
    \E input \in IF searchEditMode = "Disabled" THEN ViInputs ELSE SearchInputs :
        CharPress(input[1], input[2], MaxDigits)

SendKeyPressEvent ==
    \E input \in KeyInputs : KeyPress(input[1], input[2])

StartSearchExternally ==
    \E r \in {[ret |-> TRUE, h |-> startSearchExternally(Handler)]} :
        Commit(r, [kind |-> "startSearchExternally", ch |-> 0, key |-> None,
                   modifier |-> NoModifier], FALSE, 0)

\* A long count: only count digits, motions, y, p and Escape are typed.
TypeCountedCommand ==
    \E ch \in CountChars : CharPress(ch, NoModifier, MaxCountDigits)

PressKey ==
    \E key \in CountKeys : KeyPress(key, NoModifier)

\* A character of the motion table, a count digit, y or i is typed.
TypeMotion ==
    \E input \in MotionInputs : CharPress(input[1], input[2], MaxMotionDigits)

\* A key other than Insert is pressed.
PressMotionKey ==
    \E key \in Keys \ {"Insert"} : KeyPress(key, NoModifier)

\* A character of ModeInputs is typed; with the search editor open, Escape, Enter
\* or 'a'.
TypeModeKey ==
    \E input \in IF searchEditMode = "Disabled" THEN ModeInputs
                  ELSE {<<CH.esc, NoModifier>>, <<CH.cr, NoModifier>>, <<CH.a, NoModifier>>} :
        CharPress(input[1], input[2], MaxDigits)

\* Insert, an arrow or a key without meaning is pressed.
PressModeKey ==
    \E key \in {"Insert", "DownArrow", "F1"} : KeyPress(key, NoModifier)

ViModeNext == TypeModeKey \/ PressModeKey \/ StartSearchExternally

ViNext == SendCharPressEvent \/ SendKeyPressEvent \/ StartSearchExternally

ViCountNext == TypeCountedCommand \/ PressKey

ViMotionNext == TypeMotion \/ PressMotionKey

\* Bound of the grapheme clusters measured: their number of code points.
MaxCluster == 3

\* The grapheme clusters measured: a narrow and a wide base, a combining mark and the
\* variation selector 16, in any order.
WidthClusters ==
    BoundedSeq({CP.a, CP.han, CP.acute, CP.vs16}, MaxCluster) \ {<<>>}

\* The colors composited.
Black == RGBColor(0, 0, 0)
White == RGBColor(255, 255, 255)
Grey == RGBColor(128, 128, 128)
Blue == RGBColor(64, 64, 240)
Orange == RGBColor(255, 165, 0)

\* The SGR pairs of a cell, the foreground equal to the background among them.
SgrPairs == {RGBColorPair(f, b) : f \in {Black, White, Grey}, b \in {Black, White, Grey}}

\* A CellRGBColorAndAlphaPair, the alphas in percent.
CellRGBColorAndAlphaPair(foreground, foregroundAlpha, background, backgroundAlpha) ==
    [foreground |-> foreground, foregroundAlpha |-> foregroundAlpha,
     background |-> background, backgroundAlpha |-> backgroundAlpha]

\* The palettes: selection and yank highlight as literal colors or as the cell's own,
\* half or fully blended; the cursor as the cell's colors swapped or as one literal color.
ColorPalettes ==
    [selection : {CellRGBColorAndAlphaPair(CellForegroundColor, 100, CellRGB(Blue), 50),
                  CellRGBColorAndAlphaPair(CellBackgroundColor, 0, CellForegroundColor, 0)},
     yankHighlight : {CellRGBColorAndAlphaPair(CellForegroundColor, 100, CellRGB(Orange), 50),
                      CellRGBColorAndAlphaPair(CellRGB(Black), 50, CellRGB(Orange), 0)},
     cursor : {[color |-> CellForegroundColor, textOverrideColor |-> CellBackgroundColor],
               [color |-> CellRGB(White), textOverrideColor |-> CellRGB(White)]}]

\* graphemeClusterWidth is applied to a cluster.
ApplyGraphemeClusterWidth ==
    /\ \E cluster \in WidthClusters :
          applied' = [fn |-> "graphemeClusterWidth", cluster |-> cluster,
                      result |-> graphemeClusterWidth(cluster)]
    /\ UNCHANGED <<viVars, renderVars>>

\* makeColors is applied to a palette, a cell's SGR pair and its three flags.
ApplyMakeColors ==
    /\ \E colorPalette \in ColorPalettes, sgrColors \in SgrPairs,
          selected \in BOOLEAN, isCursor \in BOOLEAN, isHighlighted \in BOOLEAN :
          applied' = [fn |-> "makeColors", colorPalette |-> colorPalette,
                      sgrColors |-> sgrColors, selected |-> selected,
                      isCursor |-> isCursor, isHighlighted |-> isHighlighted,
                      result |-> makeColors(colorPalette, sgrColors, selected, isCursor,
                                            isHighlighted)]
    /\ UNCHANGED <<viVars, renderVars>>

PureNext == ApplyGraphemeClusterWidth \/ ApplyMakeColors

vars == <<viVars, renderVars, pureVars>>

\* The handler under any sequence of its three entry points.
Spec == ViInit /\ [][ViNext]_vars

\* The handler while counts of up to MaxCountDigits digits are typed in Normal mode.
SpecCount == ViCountInit /\ [][ViCountNext]_vars

\* The handler in Normal and the visual modes while counts and motions are typed.
SpecMotion == ViMotionInit /\ [][ViMotionNext]_vars

\* The pure functions of RenderBufferBuilder.cpp over their arguments.
SpecFunctions == PureInit /\ [][PureNext]_vars

\* The builder over the frames with an input method's preedit string.
SpecRender == ImeInit /\ [][ImeNext]_vars

\* The handler under the events that change the mode, with the history of
\* modeChanged.
SpecMode == ViModeInit /\ [][ViModeNext]_vars

\* The builder over the frames with search highlighting.
SpecSearch == SearchInit /\ [][SearchNext]_vars

\* The builder over the frames with any preedit string.
SpecPreedit == MarkInit /\ [][ImeNext]_vars

\* The builder over the frames of cell lines and trivial lines alone.
SpecPlain == PlainInit /\ [][PlainNext]_vars

(***************************************************************************)
(* ViInputHandler: properties                                              *)
(***************************************************************************)

\* The calls of cs on the Executor method fn, in order.
Invoked(cs, fn) == SelectSeq(cs, LAMBDA c : c.fn = fn)

\* The Executor methods that act on the document (all but the search editor's
\* notifications, scrollViewport and modeChanged).
ExecutorActions == {"moveCursor", "execute", "yank", "select", "paste", "jumpToNextMatch",
                    "jumpToPreviousMatch", "searchCurrentWord", "reverseSearchCurrentWord"}

NothingPending == pendingOperator = None /\ pendingTextObjectScope = None

\* The event is the character ch pressed with one of the modifiers.
IsChar(event, ch, modifiers) ==
    event.kind = "char" /\ event.ch = ch /\ event.modifier \in modifiers

\* The characters of the text-object table.
TextObjectChars == {c \in ViChars : charToTextObject(c) # None}

\* C1: after a key or character event that invoked an executor action or changed
\* viMode (every mode change is reported by modeChanged), count is 0 and no operator
\* and no text-object scope is pending.
C1_ResetAfterCommit ==
    (/\ lastEvent.kind \in {"char", "key"}
     /\ \E i \in DOMAIN calls : calls[i].fn \in ExecutorActions \cup {"modeChanged"})
        => (count = U32(0) /\ NothingPending)

\* The motion an unmodified event stands for in Normal mode while count is cnt: a
\* character of the motion table other than n and N (the search jumps of Normal
\* mode) and other than a '0' that continues a count, or a key of sendKeyPressEvent.
NormalMotion(event, cnt) ==
    IF event.kind = "key" /\ event.modifier = NoModifier THEN KeyMotionOf(event.key)
    ELSE IF /\ event.kind = "char"
            /\ event.modifier = NoModifier
            /\ event.ch \notin {CH.n, CH.N}
            /\ ~(event.ch = CH.d0 /\ cnt # U32(0))
         THEN MotionOf(NoModifier, event.ch)
         ELSE None

\* a <= b for two digit sequences of one length.
DigitsLeq(a, b) ==
    a = b \/ \E i \in DOMAIN a : a[i] < b[i] /\ \A j \in 1..(i - 1) : a[j] = b[j]

\* The decimal numeral of the largest unsigned.
UnsignedMax == Decimal([hi |-> Half - 1, lo |-> Half - 1])

\* The digit sequence is the decimal numeral of a value an unsigned holds.
FitsUnsigned(digits) ==
    \/ Len(digits) < Len(UnsignedMax)
    \/ Len(digits) = Len(UnsignedMax) /\ DigitsLeq(digits, UnsignedMax)

\* n is the value of the decimal numeral digits, 1 for no digit.
IsValueOf(n, digits) == IF digits = <<>> THEN n = U32(1) ELSE Decimal(n) = digits

\* cs holds exactly one moveCursor call, for the motion and the count the digits spell.
MovesOnce(cs, motion, digits) ==
    LET moves == Invoked(cs, "moveCursor")
    IN  /\ Len(moves) = 1
        /\ moves[1].args[1] = motion
        /\ IsValueOf(moves[1].args[2], digits)

\* The step of C5: from Normal mode with nothing pending when the first digit was
\* typed, the digits of typed followed by a motion event.
C5Case(event) ==
    /\ viMode = "Normal"
    /\ searchEditMode = "Disabled"
    /\ NothingPending
    /\ typed.fromZero
    /\ NormalMotion(event, count) # None

\* C5 (as claimed): in Normal mode with nothing pending, digits d1..dk followed by a
\* motion key invoke moveCursor(motion, N) exactly once, N the decimal value of the
\* digits (1 for no digit), and count is 0 afterwards.
C5_AnyCount ==
    [][C5Case(lastEvent') =>
        /\ MovesOnce(calls', NormalMotion(lastEvent', count), typed.digits)
        /\ count' = U32(0)]_vars

\* C5 (amended): the same for digits whose decimal value is below 2^32; count is an
\* unsigned and longer counts wrap.
C5_CountedMotion ==
    [][(C5Case(lastEvent') /\ FitsUnsigned(typed.digits)) =>
        /\ MovesOnce(calls', NormalMotion(lastEvent', count), typed.digits)
        /\ count' = U32(0)]_vars

\* C5's case: "9", "0", "j" has invoked moveCursor(LineDown, 90).
C5_Witness ==
    /\ IsChar(lastEvent, CH.j, {NoModifier})
    /\ calls = <<Call("moveCursor", <<"LineDown", U32(90)>>)>>
    /\ count = U32(0)

\* C6: in Normal mode with nothing pending, 'y' makes no executor call and sets
\* pendingOperator to Yank; a 'y' right after it invokes execute(Yank, FullLine, n)
\* exactly once, n the count or 1, and leaves no operator pending.
C6_YankYank ==
    [][(viMode = "Normal" /\ searchEditMode = "Disabled"
            /\ IsChar(lastEvent', CH.y, {NoModifier})) =>
        /\ NothingPending => (calls' = <<>> /\ pendingOperator' = "Yank")
        /\ (pendingOperator = "Yank" /\ pendingTextObjectScope = None
                /\ IsChar(lastEvent, CH.y, {NoModifier})) =>
              /\ calls' = <<Call("execute", <<"Yank", "FullLine", CountOr1(Handler)>>)>>
              /\ pendingOperator' = None]_vars

\* C6's case: "y", "y" with no count has invoked execute(Yank, FullLine, 1).
C6_Witness ==
    /\ viMode = "Normal"
    /\ IsChar(lastEvent, CH.y, {NoModifier})
    /\ calls = <<Call("execute", <<"Yank", "FullLine", U32(1)>>)>>
    /\ pendingOperator = None

\* C7: in Normal mode with Yank and a scope s pending, every character c of the
\* text-object table invokes yank(s, object(c)) exactly once and nothing else, and
\* clears count, pendingOperator and pendingTextObjectScope.
C7_YankTextObject ==
    [][(viMode = "Normal" /\ searchEditMode = "Disabled" /\ pendingOperator = "Yank"
            /\ pendingTextObjectScope # None
            /\ \E c \in TextObjectChars : IsChar(lastEvent', c, {NoModifier})) =>
        /\ calls' = <<Call("yank", <<pendingTextObjectScope, charToTextObject(lastEvent'.ch)>>)>>
        /\ count' = U32(0)
        /\ pendingOperator' = None
        /\ pendingTextObjectScope' = None]_vars

\* C8: in a visual mode with a scope s pending, every character c of the text-object
\* table invokes select(s, object(c)) exactly once, keeps the mode, and clears count
\* and pendingTextObjectScope.
C8_SelectTextObject ==
    [][(viMode \in VisualModes /\ searchEditMode = "Disabled"
            /\ pendingTextObjectScope # None
            /\ lastEvent'.kind = "char" /\ lastEvent'.ch \in TextObjectChars) =>
        /\ calls' = <<Call("select", <<pendingTextObjectScope, charToTextObject(lastEvent'.ch)>>)>>
        /\ viMode' = viMode
        /\ count' = U32(0)
        /\ pendingTextObjectScope' = None]_vars

\* C8's case: in VisualLine, "3", "a", "(" has selected A RoundBrackets.
C8_Witness ==
    /\ viMode = "VisualLine"
    /\ IsChar(lastEvent, CH.lparen, {NoModifier})
    /\ calls = <<Call("select", <<"A", "RoundBrackets">>)>>
    /\ count = U32(0)
    /\ pendingTextObjectScope = None

\* C9: in every visual mode 'n' invokes jumpToNextMatch(c) and 'N', with or without
\* Shift, invokes jumpToPreviousMatch(c), c the count or 1; neither invokes moveCursor.
C9_VisualSearchJumps ==
    [][(viMode \in VisualModes /\ searchEditMode = "Disabled") =>
        /\ IsChar(lastEvent', CH.n, {NoModifier}) =>
              /\ Invoked(calls', "jumpToNextMatch")
                    = <<Call("jumpToNextMatch", <<CountOr1(Handler)>>)>>
              /\ Invoked(calls', "moveCursor") = <<>>
        /\ IsChar(lastEvent', CH.N, {NoModifier, Shift}) =>
              /\ Invoked(calls', "jumpToPreviousMatch")
                    = <<Call("jumpToPreviousMatch", <<CountOr1(Handler)>>)>>
              /\ Invoked(calls', "moveCursor") = <<>>]_vars

\* C10: once startSearchExternally was called in Insert mode, the next unmodified
\* Escape or Enter the search editor processes closes it and leaves the handler in
\* Insert mode, whatever events and startSearchExternally calls came between.
C10_ExternalSearchRestoresInsert ==
    [][(searchOrigin = "Insert"
            /\ \E c \in {CH.esc, CH.cr} : IsChar(lastEvent', c, {NoModifier})) =>
        (searchEditMode' = "Disabled" /\ viMode' = "Insert")]_vars

\* The calls are exactly one call of the Executor method fn, without arguments, and
\* any number of modeChanged calls.
NotifiesOnce(cs, fn) ==
    /\ Invoked(cs, fn) = <<Call(fn, <<>>)>>
    /\ \A i \in DOMAIN cs : cs[i].fn \in {fn, "modeChanged"}

\* C11: while search editing is active, an unmodified Escape clears the search term,
\* sets searchEditMode to Disabled and invokes searchCancel exactly once, whatever
\* the term; it invokes neither updateSearchTerm nor searchDone.
C11_EscapeCancels ==
    [][(searchEditMode # "Disabled" /\ IsChar(lastEvent', CH.esc, {NoModifier})) =>
        /\ searchTerm' = <<>>
        /\ searchEditMode' = "Disabled"
        /\ NotifiesOnce(calls', "searchCancel")]_vars

\* C11's case: the term "aa" was typed and reported, and Escape has cancelled.
C11_Witness ==
    /\ IsChar(lastEvent, CH.esc, {NoModifier})
    /\ reportedTerm = <<<<CH.a, CH.a>>>>
    /\ searchTerm = <<>>
    /\ searchEditMode = "Disabled"
    /\ calls = <<Call("searchCancel", <<>>)>>

\* C12: while search editing is active, an unmodified Enter leaves the search term as
\* typed, sets searchEditMode to Disabled and invokes searchDone exactly once; it
\* does not invoke searchCancel.
C12_EnterCommits ==
    [][(searchEditMode # "Disabled" /\ IsChar(lastEvent', CH.cr, {NoModifier})) =>
        /\ searchTerm' = searchTerm
        /\ searchEditMode' = "Disabled"
        /\ NotifiesOnce(calls', "searchDone")]_vars

\* C12's case: the term "aa" was typed, and Enter has committed it.
C12_Witness ==
    /\ IsChar(lastEvent, CH.cr, {NoModifier})
    /\ searchTerm = <<CH.a, CH.a>>
    /\ searchEditMode = "Disabled"
    /\ calls = <<Call("searchDone", <<>>)>>

\* The term after a character event of the search editor that edits it, and None
\* (no edit) for the events that do not: Backspace and Delete drop the last
\* character, Ctrl-L and Ctrl-U empty the term, any other character from 0x20 on
\* with no modifier but Shift is appended.
EditedTerm(term, event) ==
    IF IsChar(event, CH.bs, {NoModifier}) \/ IsChar(event, CH.del, {NoModifier})
    THEN <<SubSeq(term, 1, Len(term) - 1)>>
    ELSE IF IsChar(event, CH.L, {Control}) \/ IsChar(event, CH.U, {Control})
    THEN <<<<>>>>
    ELSE IF event.ch >= 32 /\ event.modifier \in {NoModifier, Shift}
    THEN <<Append(term, event.ch)>>
    ELSE <<>>

\* The event is an unmodified Escape or Enter, which close the search editor.
ClosesEditor(event) == IsChar(event, CH.esc, {NoModifier}) \/ IsChar(event, CH.cr, {NoModifier})

\* What C13 says of a character event while search editing is active; closing says
\* which events are left to C11 and C12.
TermEdited(closing) ==
    (searchEditMode # "Disabled" /\ lastEvent'.kind = "char" /\ ~closing) =>
        LET edited == EditedTerm(searchTerm, lastEvent')
        IN  /\ edited # <<>> =>
                  /\ searchTerm' = edited[1]
                  /\ calls' = <<Call("updateSearchTerm", <<searchTerm'>>)>>
            /\ edited = <<>> => (searchTerm' = searchTerm /\ calls' = <<>>)
            /\ reportedTerm' # <<>> => reportedTerm'[1] = searchTerm'

\* C13 (as claimed): while search editing is active, Backspace/Delete drop the last
\* character of the term, Ctrl-L/Ctrl-U empty it, any other character >= 0x20 with no
\* modifier but Shift is appended, each reporting the resulting term by one
\* updateSearchTerm call, so that the term last reported equals searchTerm; every
\* other character event leaves the term unchanged and makes no executor call.
C13_OtherEventsDropped == [][TermEdited(FALSE)]_vars

\* C13 (amended): the same, every other character event being every one except the
\* unmodified Escape and Enter, which close the editor and notify the executor.
C13_TermEdits == [][TermEdited(ClosesEditor(lastEvent'))]_vars

\* C13's case: "a" was typed and reported, and Backspace has emptied the term again.
C13_Witness ==
    /\ IsChar(lastEvent, CH.bs, {NoModifier})
    /\ searchEditMode # "Disabled"
    /\ searchTerm = <<>>
    /\ reportedTerm = <<<<>>>>
    /\ calls = <<Call("updateSearchTerm", <<<<>>>>)>>

\* The handler's fields are what they were before the step.
HandlerUnchanged ==
    UNCHANGED <<viMode, count, pendingOperator, pendingTextObjectScope, searchEditMode,
                searchTerm>>

\* C14: while searchEditMode is not Disabled, every key event and every character
\* event returns true whatever viMode is; a key event changes no field of the handler
\* and makes no executor call; a character event changes neither count nor
\* pendingOperator nor pendingTextObjectScope and invokes no motion, yank, select or
\* paste.
C14_EditorTakesEveryEvent ==
    [][(searchEditMode # "Disabled" /\ lastEvent'.kind \in {"key", "char"}) =>
        /\ ret' = TRUE
        /\ lastEvent'.kind = "key" => (HandlerUnchanged /\ calls' = <<>>)
        /\ lastEvent'.kind = "char" =>
              /\ UNCHANGED <<count, pendingOperator, pendingTextObjectScope>>
              /\ \A i \in DOMAIN calls' :
                    calls'[i].fn \notin {"moveCursor", "execute", "yank",
                                         "select", "paste"}]_vars

\* C14's case: in Visual mode "3", "/" opened the editor with the count 3 typed, and
\* the Down arrow was taken without effect.
C14_Witness ==
    /\ searchEditMode = "Enabled"
    /\ viMode = "Visual"
    /\ count = U32(3)
    /\ lastEvent.kind = "key" /\ lastEvent.key = "DownArrow" /\ lastEvent.modifier = NoModifier
    /\ ret = TRUE
    /\ calls = <<>>

\* C15: with search editing disabled, in Insert mode every key event and every
\* character event returns false, changes no field of the handler and makes no
\* executor call; in every other mode both kinds of event return true.
C15_InsertDeclines ==
    [][(searchEditMode = "Disabled" /\ lastEvent'.kind \in {"key", "char"}) =>
        IF viMode = "Insert"
        THEN ret' = FALSE /\ HandlerUnchanged /\ calls' = <<>>
        ELSE ret' = TRUE]_vars

\* C15's case: 'j' was typed in Insert mode and declined.
C15_Witness ==
    /\ viMode = "Insert"
    /\ searchEditMode = "Disabled"
    /\ IsChar(lastEvent, CH.j, {NoModifier})
    /\ ret = FALSE
    /\ calls = <<>>

\* The mode a mode key targets: 'v' Visual, Shift+V VisualLine, Ctrl+V VisualBlock.
TargetMode(event) ==
    CASE IsChar(event, CH.v, {NoModifier}) -> "Visual"
      [] IsChar(event, CH.V, {Shift})      -> "VisualLine"
      [] IsChar(event, CH.V, {Control})    -> "VisualBlock"
      [] OTHER -> None

\* C16: with search editing disabled, in Normal and the visual modes, a mode key
\* pressed in its target mode returns the handler to Normal and pressed in another
\* mode enters the target mode; 'i' and 'a' enter Insert exactly when the mode is
\* Normal and no operator is pending.
C16_ModeKeysToggle ==
    [][(searchEditMode = "Disabled" /\ viMode # "Insert") =>
        /\ TargetMode(lastEvent') # None =>
              viMode' = IF viMode = TargetMode(lastEvent') THEN "Normal"
                        ELSE TargetMode(lastEvent')
        /\ (IsChar(lastEvent', CH.i, {NoModifier}) \/ IsChar(lastEvent', CH.a, {NoModifier})) =>
              (viMode' = "Insert" <=> (viMode = "Normal" /\ pendingOperator = None))]_vars

\* C16's case: Shift+V pressed in VisualLine has returned the handler to Normal.
C16_Witness ==
    /\ IsChar(lastEvent, CH.V, {Shift})
    /\ viMode = "Normal"
    /\ calls = <<Call("modeChanged", <<"Normal">>)>>

\* The motion table as C17 states it: the motion of a character typed without
\* modifier or with Shift (Ctrl-U and Ctrl-D: with Control, or Control and Shift), and
\* of a key pressed without modifier.
TableMotion(event) ==
    LET plain == event.kind = "char" /\ event.modifier \in {NoModifier, Shift}
        ctrl == event.kind = "char" /\ event.modifier \in {Control, Control + Shift}
        key == event.kind = "key" /\ event.modifier = NoModifier
        ch == event.ch
    IN  CASE (plain /\ ch = CH.h) \/ (key /\ event.key = "LeftArrow")  -> "CharLeft"
          [] (plain /\ ch = CH.l) \/ (key /\ event.key = "RightArrow") -> "CharRight"
          [] (plain /\ ch = CH.j) \/ (key /\ event.key = "DownArrow")  -> "LineDown"
          [] (plain /\ ch = CH.k) \/ (key /\ event.key = "UpArrow")    -> "LineUp"
          [] plain /\ ch = CH.w       -> "WordForward"
          [] plain /\ ch = CH.b       -> "WordBackward"
          [] plain /\ ch = CH.e       -> "WordEndForward"
          [] plain /\ ch = CH.d0      -> "LineBegin"
          [] plain /\ ch = CH.caret   -> "LineTextBegin"
          [] plain /\ ch = CH.dollar  -> "LineEnd"
          [] (plain /\ ch = CH.g) \/ (key /\ event.key = "Home")       -> "FileBegin"
          [] (plain /\ ch = CH.G) \/ (key /\ event.key = "End")        -> "FileEnd"
          [] (ctrl /\ ch = CH.U) \/ (key /\ event.key = "PageUp")      -> "PageUp"
          [] (ctrl /\ ch = CH.D) \/ (key /\ event.key = "PageDown")    -> "PageDown"
          [] plain /\ ch = CH.H       -> "PageTop"
          [] plain /\ ch = CH.L       -> "PageBottom"
          [] plain /\ ch = CH.lbrace  -> "ParagraphBackward"
          [] plain /\ ch = CH.rbrace  -> "ParagraphForward"
          [] plain /\ ch = CH.percent -> "ParenthesisMatching"
          [] plain /\ ch = CH.bar     -> "ScreenColumn"
          [] OTHER -> None

\* The count a command is given: the count typed, 1 when none was.
EffectiveCount == IF count = U32(0) THEN U32(1) ELSE count

\* What C17 says of an event of the motion table in Normal and the visual modes with
\* nothing pending; digit says which events are count digits instead.
MotionInvoked(digit) ==
    (/\ searchEditMode = "Disabled"
     /\ viMode \in {"Normal"} \cup VisualModes
     /\ NothingPending
     /\ TableMotion(lastEvent') # None
     /\ ~digit) =>
        Invoked(calls', "moveCursor")
            = <<Call("moveCursor", <<TableMotion(lastEvent'), EffectiveCount>>)>>

\* C17 (as claimed): in Normal and every visual mode, with search editing disabled
\* and no operator or scope pending, each key of the motion table, with or without
\* Shift, invokes moveCursor exactly once with its table motion and the count or 1.
C17_EveryMotionKey == [][MotionInvoked(FALSE)]_vars

\* C17 (amended): the same, except that an unmodified '0' typed while a count is in
\* progress is a digit of the count and invokes nothing.
C17_MotionTable ==
    [][MotionInvoked(IsChar(lastEvent', CH.d0, {NoModifier}) /\ count # U32(0))]_vars

\* C17's case: in VisualBlock, "3" then Shift+'$' has invoked moveCursor(LineEnd, 3).
C17_Witness ==
    /\ viMode = "VisualBlock"
    /\ IsChar(lastEvent, CH.dollar, {Shift})
    /\ calls = <<Call("moveCursor", <<"LineEnd", U32(3)>>)>>
    /\ count = U32(0)

\* Normal mode, the search editor closed, with Yank pending.
YankPending ==
    searchEditMode = "Disabled" /\ viMode = "Normal" /\ pendingOperator = "Yank"

\* C21: in Normal mode with Yank pending, a character event other than 'y' leaves
\* no operator pending.
C21_OtherKeyCancelsYank ==
    [][(YankPending /\ lastEvent'.kind = "char" /\ lastEvent'.ch # CH.y)
          => pendingOperator' = None]_vars

\* The event is a motion: a character or key of the motion table, or J or K (an
\* unmodified '0' typed while a count is in progress is a digit of the count).
IsMotion(event) ==
    /\ \/ TableMotion(event) # None
       \/ IsChar(event, CH.J, {NoModifier, Shift})
       \/ IsChar(event, CH.K, {NoModifier, Shift})
    /\ ~(IsChar(event, CH.d0, {NoModifier}) /\ count # U32(0))

\* C22: in Normal mode with Yank pending and no text-object scope pending, a motion
\* calls no method of the executor, and leaves count 0, no operator and no scope
\* pending.
C22_YankMotionIsNoOp ==
    [][(YankPending /\ pendingTextObjectScope = None /\ IsMotion(lastEvent'))
          => (calls' = <<>> /\ count' = U32(0) /\ pendingOperator' = None
                /\ pendingTextObjectScope' = None)]_vars

\* The event is 'J' (scrolling by down, towards LineDown) or 'K' (scrolling by up,
\* towards LineUp) with no operator pending in Normal or a visual mode, and it called
\* scrollViewport by one line and then moveCursor with the count or 1, and nothing
\* else.
ScrollThenMove(ch, delta, motion) ==
    (/\ searchEditMode = "Disabled"
     /\ viMode \in {"Normal"} \cup VisualModes
     /\ pendingOperator = None
     /\ IsChar(lastEvent', ch, {NoModifier, Shift})) =>
        calls' = <<Call("scrollViewport", <<delta>>),
                   Call("moveCursor", <<motion, EffectiveCount>>)>>

\* C23: in Normal or a visual mode with no operator pending, 'J' calls
\* scrollViewport by one line and then moveCursor(LineDown, n), and 'K' calls
\* scrollViewport by one line the other way and then moveCursor(LineUp, n), n being
\* the count or 1; the scroll is by one line whatever n is.
C23_ScrollBeforeMotion ==
    [][ScrollThenMove(CH.J, -1, "LineDown") /\ ScrollThenMove(CH.K, 1, "LineUp")]_vars

\* C23's case: in Visual mode, "3" then 'K' has scrolled by one line and then moved
\* the cursor three lines up.
C23_Witness ==
    /\ viMode = "Visual"
    /\ IsChar(lastEvent, CH.K, {NoModifier})
    /\ calls = <<Call("scrollViewport", <<1>>), Call("moveCursor", <<"LineUp", U32(3)>>)>>

\* An event is sent to the handler in Normal or a visual mode with the search
\* editor closed.
ViCommandMode == searchEditMode = "Disabled" /\ viMode \in {"Normal"} \cup VisualModes

\* What C24 says of the unmodified '0': with count 0 and no operator pending it
\* invokes the LineBegin motion with count 1 and leaves count 0; with a count in
\* progress it multiplies the count by ten and invokes nothing.
UnmodifiedZero ==
    (ViCommandMode /\ IsChar(lastEvent', CH.d0, {NoModifier})) =>
        IF count = U32(0)
        THEN /\ count' = U32(0)
             /\ pendingOperator = None
                   => calls' = <<Call("moveCursor", <<"LineBegin", U32(1)>>)>>
        ELSE count' = MulAdd10(count, 0) /\ calls' = <<>>

\* The event is a digit typed with a modifier.
ModifiedDigit(event) ==
    event.kind = "char" /\ IsDigit(event.ch) /\ event.modifier # NoModifier

ScopePending ==
    /\ ViCommandMode
    /\ pendingTextObjectScope # None
    /\ viMode = "Normal" => pendingOperator = "Yank"

\* C25: with a text-object scope pending (in Normal mode with Yank pending, or in a
\* visual mode), after a character that is not in the text-object table and does not
\* leave the mode a scope is still pending.
C25_MissKeepsScope ==
    [][(/\ ScopePending
        /\ lastEvent'.kind = "char"
        /\ lastEvent'.ch \notin TextObjectChars
        /\ viMode' = viMode) => pendingTextObjectScope' # None]_vars

\* C28: after every sendCharPressEvent, sendKeyPressEvent and startSearchExternally,
\* from a handler constructed with search editing disabled: while the search editor
\* is open viMode is not Insert, and while it is open externally viMode is Normal.
C28_SearchEditorOutsideInsert ==
    /\ searchEditMode # "Disabled" => viMode # "Insert"
    /\ searchEditMode = "ExternallyEnabled" => viMode = "Normal"

\* C28's case: startSearchExternally was called in Insert mode, and the editor is
\* open externally in Normal mode.
C28_Witness ==
    /\ lastEvent.kind = "startSearchExternally"
    /\ searchOrigin = "Insert"
    /\ searchEditMode = "ExternallyEnabled"
    /\ viMode = "Normal"

\* C29: in every state reached by key events, character events and
\* startSearchExternally calls, pendingOperator is empty or Yank (so that
\* executePendingOrMoveCursor has only its MoveCursor and Yank branches to take), it
\* is not empty outside Normal mode, and a text-object scope pending in Normal mode
\* has Yank pending with it.
C29_OnlyYankPends ==
    /\ pendingOperator \in {None, "Yank"}
    /\ pendingOperator # None => viMode = "Normal"
    /\ (viMode = "Normal" /\ pendingTextObjectScope # None) => pendingOperator = "Yank"

\* C29's case: "y" then "i" in Normal mode: Yank and the Inner scope are pending.
C29_Witness ==
    /\ viMode = "Normal"
    /\ IsChar(lastEvent, CH.i, {NoModifier})
    /\ pendingOperator = "Yank"
    /\ pendingTextObjectScope = "Inner"

\* C32: an operation that changes viMode calls modeChanged exactly once, with the
\* new mode, and one that leaves viMode as it is does not call it; setMode to the
\* current mode changes nothing of the handler and calls nothing; and once
\* modeChanged has been called, the argument of its latest call is viMode.
C32_ModeChangeNotified ==
    [][/\ Invoked(calls', "modeChanged")
            = IF viMode' # viMode THEN <<Call("modeChanged", <<viMode'>>)>> ELSE <<>>
       /\ setMode(Handler, viMode) = Handler
       /\ notifiedMode'.mode # <<>> => notifiedMode'.mode[1] = viMode']_vars

\* C32's case: 'v' has entered Visual mode, and modeChanged(Visual) was called once
\* and is the latest call of modeChanged.
C32_Witness ==
    /\ IsChar(lastEvent, CH.v, {NoModifier})
    /\ viMode = "Visual"
    /\ calls = <<Call("modeChanged", <<"Visual">>)>>
    /\ notifiedMode.mode = <<"Visual">>

(***************************************************************************)
(* RenderBufferBuilder: properties                                         *)
(***************************************************************************)

\* The caller is between two lines of a frame, and no call of the frame has thrown or
\* had undefined behaviour.
LinesDone == frame.phase = "idle" /\ builder.fault = None

\* The cells emitted for the line, in emission order.
CellsOfLine(line) == SelectSeq(builder.output.cells, LAMBDA c : c.position.line = line)

\* Scanning the cells from the i-th on, a run being open or not before it: no groupStart
\* while a run is open, no cell outside a run, and no run left open at the end.
RECURSIVE RunsFrom(_, _, _)
RunsFrom(cells, i, open) ==
    IF i > Len(cells) THEN ~open
    ELSE /\ cells[i].groupStart = ~open
         /\ RunsFrom(cells, i + 1, ~cells[i].groupEnd)

Marks(cells, mark) == Cardinality({i \in DOMAIN cells : cells[i][mark]})

\* C2: once the lines of a frame are built, with or without a preedit string rendered
\* at the cursor, the cells of each line carry as many groupStart as groupEnd, and
\* in emission order the runs neither overlap nor nest and hold every cell.
C2_RunsPartitionCells ==
    LinesDone =>
        /\ \A line \in 0..(frame.line - 1) :
              Marks(CellsOfLine(line), "groupStart") = Marks(CellsOfLine(line), "groupEnd")
        /\ RunsFrom(builder.output.cells, 1, FALSE)

\* The code points of the line's cells in order, each with its cell's column; a cell
\* without text stands as a blank, code point 0.
RECURSIVE LineText(_)
LineText(cells) ==
    IF cells = <<>> THEN <<>>
    ELSE LET cps == IF Head(cells).codepoints = <<>> THEN <<0>> ELSE Head(cells).codepoints
         IN  [i \in 1..Len(cps) |-> [codepoint |-> cps[i], column |-> Head(cells).column]]
                 \o LineText(Tail(cells))

\* Where the pattern occurs in the text from index i on, scanned left to right
\* without overlap.
RECURSIVE Occurrences(_, _, _)
Occurrences(text, pattern, i) ==
    IF i + Len(pattern) - 1 > Len(text) THEN {}
    ELSE IF [k \in 1..Len(pattern) |-> text[i + k - 1].codepoint] = pattern
         THEN {i} \cup Occurrences(text, pattern, i + Len(pattern))
         ELSE Occurrences(text, pattern, i + 1)

\* The columns of the cells that cover an occurrence of the pattern in the line.
MatchColumns(cells, pattern) ==
    LET text == LineText(cells)
    IN  {text[k].column :
            k \in UNION {s..(s + Len(pattern) - 1) : s \in Occurrences(text, pattern, 1)}}

\* The columns of the line's emitted cells that a search-highlight pair recolored.
RecoloredColumns(line) ==
    {builder.output.cells[i].position.column :
        i \in {j \in DOMAIN builder.output.cells :
                  /\ builder.output.cells[j].position.line = line
                  /\ builder.output.cells[j].colors # <<>>}}

\* C3: with search highlighting on and a pattern, the cells recolored on every line
\* built are exactly the cells that cover the occurrences of the pattern in that line.
C3_HighlightsOccurrences ==
    LinesDone =>
        \A line \in 0..(frame.line - 1) :
            RecoloredColumns(line) = MatchColumns(frame.grid[line + 1], terminal.searchPattern)

\* C4: the matcher's offset is 0 at every line start and line end, and a line whose
\* text does not hold the pattern has no recolored cell, whatever follows it.
C4_MatcherResetsAtLineEnds ==
    builder.fault = None =>
    /\ (frame.phase = "idle" \/ frame.column = 0) => builder.searchPatternOffset = 0
    /\ \A line \in 0..(Len(frame.grid) - 1) :
          MatchColumns(frame.grid[line + 1], terminal.searchPattern) = {}
              => RecoloredColumns(line) = {}

\* The columns of the line's grid cells that renderCell was handed and did not render.
SkippedColumns(line) ==
    {frame.grid[line + 1][i].column :
        i \in {j \in DOMAIN frame.grid[line + 1] : frame.grid[line + 1][j].skipped}}

\* C18: when a renderCell call reaches the cursor's grid position with a non-empty
\* preedit string of width w (and neither throws nor has undefined behaviour), it
\* emits one cell per preedit cluster, carrying that cluster, and advances the
\* reported cursor column by w; the grid columns not rendered are then exactly the
\* columns of the cursor's line from the cursor column up to w columns on, as far as
\* the line goes, and no column of a later line.
C18_PreeditReplacesColumns ==
    [][LET preedit == builder.inputMethodData.preeditString
           w == TextWidth(preedit)
           cursor == builder.cursorPosition
           size == Len(builder.output.cells)
           atCursor == /\ frame.phase = "line"
                       /\ frame'.phase = "line"
                       /\ frame'.column = frame.column + 1
                       /\ CellLocation(frame.line, frame.column) = cursor
       IN  (preedit # <<>> /\ builder'.fault = None) =>
            /\ atCursor =>
                  /\ Len(builder'.output.cells) = size + Len(preedit)
                  /\ \A i \in 1..Len(preedit) :
                        builder'.output.cells[size + i].codepoints = preedit[i]
                  /\ builder'.output.cursor[1].position.column
                        = builder.output.cursor[1].position.column + w
            /\ \A line \in 0..(Len(frame'.grid) - 1) :
                  SkippedColumns(line)' =
                      IF line = cursor.line
                      THEN {frame'.grid[line + 1][i].column :
                                i \in {j \in DOMAIN frame'.grid[line + 1] :
                                          frame'.grid[line + 1][j].cell}}
                               \cap (cursor.column)..(cursor.column + w - 1)
                      ELSE {}]_vars

\* graphemeClusterWidth was applied to a cluster of at least minLen code points that
\* ends with U+FE0F.
MeasuredSelector(minLen) ==
    /\ applied.fn = "graphemeClusterWidth"
    /\ Len(applied.cluster) >= minLen
    /\ applied.cluster[Len(applied.cluster)] = CP.vs16

\* C19 (as claimed): for every non-empty grapheme cluster whose last code point is
\* U+FE0F, the cluster of U+FE0F alone included, graphemeClusterWidth returns 2
\* whatever the width of the base code point.
C19_TrailingSelector == MeasuredSelector(1) => applied.result = 2

\* C19 (amended): the same for the clusters of two code points or more; U+FE0F
\* alone is its own base and has the width of that code point.
C19_SelectorAfterBase == MeasuredSelector(2) => applied.result = 2

\* C19's case: the narrow base 'a' followed by U+FE0F was measured as 2 columns wide.
C19_Witness ==
    /\ applied.fn = "graphemeClusterWidth"
    /\ applied.cluster = <<CP.a, CP.vs16>>
    /\ applied.result = 2

\* A configured color resolved against a pair.
Resolved(pair, configured) ==
    CASE configured.kind = "CellForegroundColor" -> pair.foreground
      [] configured.kind = "CellBackgroundColor" -> pair.background
      [] configured.kind = "RGBColor" -> configured.color

\* blend(pair, configured): each side of the configured pair resolved against the
\* pair and mixed with it by the configured alpha, the result forced distinct.
Blend(pair, configured) ==
    distinct(RGBColorPair(mix(Resolved(pair, configured.foreground), pair.foreground,
                              configured.foregroundAlpha),
                          mix(Resolved(pair, configured.background), pair.background,
                              configured.backgroundAlpha)))

\* The cursor's pair resolved against a pair: the text override color over the
\* cursor color.
CursorOver(pair, cursor) ==
    RGBColorPair(Resolved(pair, cursor.textOverrideColor), Resolved(pair, cursor.color))

\* 75% of the color a with 25% of the color b, per channel.
ThreeQuarters(a, b) == [i \in 1..3 |-> (a[i] * 75 + b[i] * 25) \div 100]

\* C20: the pair makeColors returns follows the precedence: no flag, the SGR pair;
\* yank-highlighted and not cursor, blend(SGR, yankHighlight), selected or not;
\* selected only, blend(SGR, selection); cursor and not selected, the cursor's colors
\* resolved against the SGR pair, yank-highlighted or not; cursor and selected, 75% of
\* the cursor's pair resolved against the Selection pair with 25% of the Selection
\* pair.  Every composited pair is forced distinct.
C20_ColorPrecedence ==
    applied.fn = "makeColors" =>
        LET sgr == applied.sgrColors
            palette == applied.colorPalette
            selection == Blend(sgr, palette.selection)
            over == CursorOver(selection, palette.cursor)
        IN  applied.result =
                CASE ~applied.selected /\ ~applied.isCursor /\ ~applied.isHighlighted -> sgr
                  [] applied.isHighlighted /\ ~applied.isCursor ->
                        Blend(sgr, palette.yankHighlight)
                  [] applied.selected /\ ~applied.isCursor /\ ~applied.isHighlighted ->
                        selection
                  [] applied.isCursor /\ ~applied.selected ->
                        distinct(CursorOver(sgr, palette.cursor))
                  [] applied.isCursor /\ applied.selected ->
                        distinct(RGBColorPair(
                            ThreeQuarters(over.foreground, selection.foreground),
                            ThreeQuarters(over.background, selection.background)))

\* C20's case: a selected, yank-highlighted cell under the cursor, white on black, got
\* three quarters of the swapped Selection pair and a quarter of the Selection pair.
C20_Witness ==
    /\ applied.fn = "makeColors"
    /\ applied.selected /\ applied.isCursor /\ applied.isHighlighted
    /\ applied.sgrColors = RGBColorPair(White, Black)
    /\ applied.colorPalette.cursor.color = CellForegroundColor
    /\ applied.colorPalette.selection.background = CellRGB(Blue)
    /\ applied.result = RGBColorPair(RGBColor(87, 87, 153), RGBColor(199, 199, 221))

\* The caller handed over a double-width cell or cluster at the cursor's position.
CursorCellIsWide ==
    LET at == builder.cursorPosition
    IN  /\ at.line + 1 \in DOMAIN frame.grid
        /\ \E k \in DOMAIN frame.grid[at.line + 1] :
              LET entry == frame.grid[at.line + 1][k]
              IN  /\ entry.column = at.column
                  /\ entry.codepoints # <<>>
                  /\ graphemeClusterWidth(entry.codepoints) = 2

\* The cursor's own cell, or the cell next after it on its line when the cursor's
\* cell is double-width.
AtCursor(position) ==
    \/ position = builder.cursorPosition
    \/ /\ position.line = builder.cursorPosition.line
       /\ position.column = builder.cursorPosition.column + 1
       /\ CursorCellIsWide

\* C26: the cursor flag passed to makeColors for a cell is true only when the
\* reported cursor is present with Block shape, and only for the cursor's own cell or
\* the cell whose immediately preceding cell is the double-width cell of the cursor;
\* in particular it is false for the first cell of the line after the cursor's.
C26_CursorFlagOnlyAtCursor ==
    builder.fault = None =>
        \A i \in DOMAIN builder.composed :
            builder.composed[i].isCursor =>
                /\ builder.output.cursor # <<>>
                /\ builder.output.cursor[1].shape = "Block"
                /\ AtCursor(builder.composed[i].position)

\* The cell covers the column.
Covers(cell, column) ==
    cell.position.column <= column /\ column < cell.position.column + cell.width

\* What C27 says of the cells a call of renderTrivialLine has appended for the line
\* of the text, given as the clusters handed over with their columns: one cell for
\* each cluster and then an empty single-width cell for each column from the text's
\* width up to the page's; every column of the page covered by exactly one cell;
\* groupStart on the first cell and on no other, groupEnd on the last and on no other.
TrivialLineCells(cells, line, text) ==
    LET c == terminal.pageSize.columns
        u == TextWidth([k \in DOMAIN text |-> text[k].codepoints])
        n == Len(text)
    IN  /\ Len(cells) = n + (c - u)
        /\ \A k \in 1..n :
              /\ cells[k].codepoints = text[k].codepoints
              /\ cells[k].width = graphemeClusterWidth(text[k].codepoints)
              /\ cells[k].position = CellLocation(line, text[k].column)
        /\ \A k \in 1..(c - u) :
              /\ cells[n + k].codepoints = <<>>
              /\ cells[n + k].width = 1
              /\ cells[n + k].position = CellLocation(line, u + k - 1)
        /\ \A column \in 0..(c - 1) :
              Cardinality({k \in DOMAIN cells : Covers(cells[k], column)}) = 1
        /\ \A k \in DOMAIN cells :
              /\ cells[k].groupStart <=> k = 1
              /\ cells[k].groupEnd <=> k = Len(cells)

\* C27: a call of renderTrivialLine for a line whose text occupies u columns, u at
\* most the page width c, appends the text's cells and then c - u empty single-width
\* cells at the columns u to c - 1, so that the columns 0 to c - 1 are covered once;
\* groupStart is on the first of these cells and groupEnd on the last, and the call
\* appends no RenderLine.
C27_TrivialLineFillsPage ==
    [][(frame.phase = "idle" /\ frame'.line = frame.line + 1 /\ builder'.fault = None) =>
          LET before == Len(builder.output.cells)
              after == builder'.output.cells
          IN  /\ Len(after) >= before
              /\ TrivialLineCells(SubSeq(after, before + 1, Len(after)),
                                   builder.baseLine + frame.line,
                                   frame'.grid[Len(frame'.grid)])
              /\ builder'.output.lines = builder.output.lines]_vars

\* C27's case: the first line was a line of cells, and the second was rendered as
\* the trivial line of one double-width cluster, which is followed by one empty cell
\* in the last of the three columns.
C27_Witness ==
    /\ frame.line = 2
    /\ frame.grid[1] # <<>>
    /\ frame.grid[1][1].cell
    /\ frame.grid[2] = TextColumns(<<(<<CP.han>>)>>, 0)
    /\ LET cells == CellsOfLine(1)
       IN  /\ Len(cells) = 2
           /\ cells[1].codepoints = <<CP.han>> /\ cells[1].groupStart /\ ~cells[1].groupEnd
           /\ cells[2].codepoints = <<>> /\ cells[2].position = CellLocation(1, 2)
           /\ cells[2].groupEnd /\ ~cells[2].groupStart
    /\ builder.output.lines = <<>>

\* C30: while a frame with a preedit string is built, renderCell does not advance
\* the column of an absent cursor, and the cell index size - skipColumns that receives
\* groupStart is in range: no call throws or has undefined behaviour.
C30_PreeditAccessesInRange == builder.fault = None

\* The position p comes before q from top to bottom and from left to right.
Before(p, q) == p.line < q.line \/ (p.line = q.line /\ p.column < q.column)

\* C31: within a frame built from top to bottom and from left to right, the cells
\* of the output are in strictly increasing order of (line, column), so that no two
\* of them share a position, also on the line where a preedit string is rendered.
C31_CellsInOrder ==
    builder.fault = None =>
        \A i \in 1..(Len(builder.output.cells) - 1) :
            Before(builder.output.cells[i].position, builder.output.cells[i + 1].position)

====
